---------------------------- MODULE Spec2Model ----------------------------
(***************************************************************************)
(* A model of gh0st's crawl orchestration (src/src/app): the control task, *)
(* the fetch pool, the crawl controller with its two discovery backends,   *)
(* the event channel and the dashboard state fed by handle_crawl_event.    *)
(*                                                                         *)
(* URLs are small naturals.  A pool input may carry, behind its listed     *)
(* URLs, a number of further URLs that are pairwise distinct and distinct  *)
(* from the listed ones; they are interchangeable, so the model keeps only *)
(* how many of them are queued, in flight and joined.                      *)
(***************************************************************************)
EXTENDS Naturals, Integers, Sequences, FiniteSets, TLC

(***************************************************************************)
(* Bounds of the model and constants of the program.                       *)
(***************************************************************************)
\* const MAX_FETCH_CONCURRENCY: usize = 256;
MAX_FETCH_CONCURRENCY == 256

\* Number of URL identities.
NumUrls == 3

\* Longest listed pool input.
MaxListLen == 2

\* Number of further distinct URLs of the large pool input.
ExtraUrls == 257

\* Number of control commands a client sends in one run.
MaxCommands == 2

\* Number of control commands a client sends while the large input is fetched.
LoadCommands == 1

\* cli.channel_capacity of the runs.
ChannelCapacity == 1

Urls == 1..NumUrls

\* A URL on another host than the start URL.
ForeignUrl == NumUrls + 1

\* Number of pages of the small sites.
SmallSite == NumUrls - 1

AllUrls == Urls \cup {ForeignUrl}

\* The value of the browser loop's `(url, depth)` and pending links outside an iteration.
NoEntry == [url |-> 0, depth |-> 0, links |-> <<>>]

\* cli.fetch_concurrency and the n of SetFetchConcurrency(n).
ConcurrencyInputs == {0, 1000}

(***************************************************************************)
(* Pure helpers.                                                           *)
(***************************************************************************)
Max(a, b) == IF a >= b THEN a ELSE b

Min(a, b) == IF a <= b THEN a ELSE b

\* value.max(1)  (a mutant of the clamp: the upper bound is lost)
sanitize_no_upper(value) == Max(value, 1)

\* data_io.rs: value.max(1).min(MAX_FETCH_CONCURRENCY)
sanitize_fetch_concurrency(value) == Min(Max(value, 1), MAX_FETCH_CONCURRENCY)

\* runtime.rs: sanitize_fetch_concurrency(concurrency.load(Relaxed))
current_fetch_concurrency(cell) == sanitize_fetch_concurrency(cell)

RECURSIVE DedupFrom(_, _)
\* The elements of s not in the set `have`, first occurrences only, in order.
DedupFrom(s, have) ==
    IF s = <<>> THEN <<>>
    ELSE IF Head(s) \in have THEN DedupFrom(Tail(s), have)
    ELSE <<Head(s)>> \o DedupFrom(Tail(s), have \cup {Head(s)})

\* (a mutant of the queue construction: every input URL is queued)
queue_without_dedup(s) == s

\* for url in urls { if queued.insert(url.clone()) { queue.push_back(url) } }
DedupKeepFirst(s) == DedupFrom(s, {})

Range(s) == {s[i] : i \in 1..Len(s)}

\* All sequences over S of length at most n.
SeqsUpTo(S, n) == UNION {[1..k -> S] : k \in 0..n}

(***************************************************************************)
(* State.                                                                  *)
(***************************************************************************)
VARIABLES
    cli,                  \* the Cli options the run was started with
    \* run_crawler: the two atomics and the channels of the control task
    fetch_concurrency,    \* Arc<AtomicUsize>
    shutdown_requested,   \* Arc<AtomicBool>
    control_rx,           \* commands sent on the control channel, not yet received
    control_tx,           \* "open" while a sender of the control channel lives
    control_task,         \* "unspawned", "running", "exited" (loop left) or "aborted"
    retry_rx,             \* (scope, urls) forwarded by the control task
    ui_script,            \* the kinds of the commands the client still sends, in order
    \* the controller task: its position and the locals of fetch_missing_urls
    pc,
    fm_ret,               \* where fetch_missing_urls returns to
    fm_input,             \* its `urls` argument
    queue,                \* VecDeque of the listed URLs still to spawn
    queue_extra,          \* number of further URLs queued behind them
    set,                  \* JoinSet: listed URLs whose task is in flight
    set_extra,            \* JoinSet: number of further tasks in flight
    conc_loaded,          \* value of current_fetch_concurrency at the last loop test
    spawned,              \* per listed URL, how many tasks were spawned for it
    spawned_extra,        \* tasks spawned for further URLs
    batch,                \* number of the running backend invocation
    \* the event channel
    tx,                   \* every event sent so far, in order
    tx_extra,             \* further tasks whose events were forwarded
    \* the consumer of the event channel (run_headless / draw_loop)
    done,                 \* AppState.done
    rx_pos,               \* number of events of tx it has handled
    state,                \* the other fields of its AppState
    sink,                 \* its OutputSink: the rows written, and whether a write failed
    psu,                  \* the locals of one call of process_single_url
    call,                 \* one call of a function of the analyzer: inputs and result
    tui,                  \* the locals of draw_loop
    \* run_crawler: its locals and the HTTP discovery backend
    enable_webdriver,
    driver_process,       \* Option<Child>: "none", "running" or "stopped"
    crawl_task,           \* "none", "running", "finished", "panicked" or "aborted"
    subscription,         \* pages the spider broadcast, not yet received
    sub_skipped,          \* pages the subscription lost since the last recv
    spider_visited,       \* URLs the spider has requested
    spider_links,         \* website.get_links()
    seen_urls,
    discovered_from_pages,
    retryable_5xx_urls,
    \* browser_discover_and_fetch: its locals
    session,              \* "none", "open" or "deleted"
    discovered,
    visited,
    bqueue,               \* VecDeque of <<url, depth>>
    fetch_set,            \* JoinSet: per URL the number of its tasks in flight
    canceled,
    br_cur,               \* the entry popped from bqueue and its links still to handle
    br_ret,               \* where the wait loop before a spawn continues
    \* the site and the machine
    redirects,            \* per URL the Location it redirects to, 0 if none
    world                 \* what the WebDriver and the spider build offer

ctlVars == <<fetch_concurrency, shutdown_requested, control_rx, control_tx,
             control_task, retry_rx, ui_script>>

poolVars == <<fm_ret, fm_input, queue, queue_extra, set, set_extra, conc_loaded,
              spawned, spawned_extra, batch>>

evVars == <<tx, tx_extra>>

envVars == <<cli, redirects, world>>

uiVars == <<done, rx_pos>>

appVars == <<state, sink>>

rcVars == <<enable_webdriver, driver_process>>

spiderVars == <<crawl_task, subscription, sub_skipped, spider_visited, spider_links>>

httpVars == <<seen_urls, discovered_from_pages, retryable_5xx_urls>>

crawlVars == <<rcVars, spiderVars, httpVars>>

browserVars == <<session, discovered, visited, bqueue, fetch_set, canceled, br_cur,
                 br_ret>>

vars == <<ctlVars, pc, poolVars, evVars, envVars, uiVars, appVars, crawlVars,
         browserVars, psu, call, tui>>

(***************************************************************************)
(* Events and commands.                                                    *)
(***************************************************************************)
\* A CrawlEvent.  `hop` marks a Page built by the redirect probe; `req` (the
\* requested URL the event was produced for) and `src` (the backend invocation
\* that sent it) are not fields of the program's event: they record its origin.
Ev(kind, url, hop, req, src) ==
    [kind |-> kind, url |-> url, hop |-> hop, req |-> req, src |-> src]

PageEv(url, req, src) == Ev("Page", url, FALSE, req, src)

HopEv(url, req, src) == Ev("Page", url, TRUE, req, src)

UnretrievedEv(url, req, src) == Ev("Unretrieved", url, FALSE, req, src)

NoteEv(kind, src) == Ev(kind, 0, FALSE, 0, src)

\* CrawlEvent::Error whose message names a URL.
ErrorEv(url, src) == Ev("Error", url, FALSE, url, src)

\* A CrawlControl.  `late` records that it was sent after a Shutdown.
Cmd(cmd, value, urls) ==
    [cmd |-> cmd, value |-> value, urls |-> urls,
     late |-> shutdown_requested
              \/ \E i \in 1..Len(control_rx) : control_rx[i].cmd = "Shutdown"]

(***************************************************************************)
(* The redirect probe and the per-URL fetch.                               *)
(***************************************************************************)
\* A response of the site to the final fetch: its status and body size.
Responses ==
    {[status |-> 200, size |-> 1], [status |-> 503, size |-> 0],
     [status |-> 503, size |-> 1]}

RECURSIVE probe_loop(_, _, _, _, _)
\* raw_redirect_rows: the loop `for _ in 0..max_hops.max(1)`.  A row is
\* <<url, redirect_url>>.
probe_loop(graph, current, seen, rows, hops_left) ==
    IF hops_left = 0 \/ current \in seen \/ current \notin DOMAIN graph
        THEN [rows |-> rows, final |-> current]
    ELSE IF graph[current] = 0
        THEN [rows |-> rows, final |-> current]
    ELSE probe_loop(graph, graph[current], seen \cup {current},
                    Append(rows, <<current, graph[current]>>), hops_left - 1)

RECURSIVE probe_loop_revisiting(_, _, _, _)
\* The loop without `if !seen.insert(current.clone()) { break; }`.
probe_loop_revisiting(graph, current, rows, hops_left) ==
    IF hops_left = 0 \/ current \notin DOMAIN graph
        THEN [rows |-> rows, final |-> current]
    ELSE IF graph[current] = 0
        THEN [rows |-> rows, final |-> current]
    ELSE probe_loop_revisiting(graph, graph[current],
                               Append(rows, <<current, graph[current]>>), hops_left - 1)

\* (a mutant of the probe: a URL already probed is probed again)
raw_redirect_rows_revisiting(graph, start_url, max_hops) ==
    probe_loop_revisiting(graph, start_url, <<>>, Max(max_hops, 1))

raw_redirect_rows(graph, start_url, max_hops) ==
    probe_loop(graph, start_url, {}, <<>>, Max(max_hops, 1))

\* process_single_url: the hop events, then the one final event.  `resp` is the
\* last response of the retry rounds.
process_single_url(graph, url, resp, src) ==
    LET probe == raw_redirect_rows(graph, url, 8)
        hops == [i \in 1..Len(probe.rows) |-> HopEv(probe.rows[i][1], url, src)]
        fetch_url == probe.final
    IN  IF resp.size = 0 /\ resp.status >= 500
            THEN Append(hops, UnretrievedEv(fetch_url, url, src))
        ELSE Append(hops, PageEv(fetch_url, url, src))

(***************************************************************************)
(* The control task (run_crawler, crawl.rs 101-116) and its clients.       *)
(***************************************************************************)
\* control_tx.send(CrawlControl::SetFetchConcurrency(n))
SendSetFetchConcurrency ==
    /\ control_tx = "open"
    /\ ui_script # <<>> /\ Head(ui_script) = "SetFetchConcurrency"
    /\ \E n \in ConcurrencyInputs :
          control_rx' = Append(control_rx, Cmd("SetFetchConcurrency", n, <<>>))
    /\ ui_script' = Tail(ui_script)
    /\ UNCHANGED <<fetch_concurrency, shutdown_requested, control_tx, control_task,
                   retry_rx, pc, poolVars, evVars, envVars, call, tui, psu, appVars, uiVars, crawlVars,
                   browserVars>>

\* control_tx.send(CrawlControl::Shutdown)
SendShutdown ==
    /\ control_tx = "open"
    /\ ui_script # <<>> /\ Head(ui_script) = "Shutdown"
    /\ control_rx' = Append(control_rx, Cmd("Shutdown", 0, <<>>))
    /\ ui_script' = Tail(ui_script)
    /\ UNCHANGED <<fetch_concurrency, shutdown_requested, control_tx, control_task,
                   retry_rx, pc, poolVars, evVars, envVars, call, tui, psu, appVars, uiVars, crawlVars,
                   browserVars>>

\* (a mutant of the match: the loop goes on after Shutdown)
control_match_without_break(control, cell, flag, retries, task) ==
    CASE control.cmd = "SetFetchConcurrency" ->
            <<sanitize_fetch_concurrency(control.value), flag, retries, task>>
      [] control.cmd = "RetryUrls" ->
            <<cell, flag, Append(retries, control), task>>
      [] control.cmd = "Shutdown" ->
            <<cell, TRUE, retries, task>>

\* (a mutant of the match: a RetryUrls is not forwarded)
control_match_retry_dropped(control, cell, flag, retries, task) ==
    CASE control.cmd = "SetFetchConcurrency" ->
            <<sanitize_fetch_concurrency(control.value), flag, retries, task>>
      [] control.cmd = "RetryUrls" ->
            <<cell, flag, retries, task>>
      [] control.cmd = "Shutdown" ->
            <<cell, TRUE, retries, "exited">>

\* (a mutant of the match: a RetryUrls goes to the front of the retry channel)
control_match_retry_first(control, cell, flag, retries, task) ==
    CASE control.cmd = "SetFetchConcurrency" ->
            <<sanitize_fetch_concurrency(control.value), flag, retries, task>>
      [] control.cmd = "RetryUrls" ->
            <<cell, flag, <<control>> \o retries, task>>
      [] control.cmd = "Shutdown" ->
            <<cell, TRUE, retries, "exited">>

\* The effect of one received command on (cell, shutdown flag, retry channel,
\* task state): the match of the control task's loop.
control_match(control, cell, flag, retries, task) ==
    CASE control.cmd = "SetFetchConcurrency" ->
            <<sanitize_fetch_concurrency(control.value), flag, retries, task>>
      [] control.cmd = "RetryUrls" ->
            <<cell, flag, Append(retries, control), task>>
      [] control.cmd = "Shutdown" ->
            <<cell, TRUE, retries, "exited">>

\* while let Some(control) = control_rx.recv().await { match control { .. } }
ControlTask ==
    /\ control_task = "running"
    /\ IF control_rx # <<>>
         THEN LET r == control_match(Head(control_rx), fetch_concurrency,
                                     shutdown_requested, retry_rx, control_task)
              IN  /\ fetch_concurrency' = r[1]
                  /\ shutdown_requested' = r[2]
                  /\ retry_rx' = r[3]
                  /\ control_task' = r[4]
                  /\ control_rx' = Tail(control_rx)
         ELSE /\ control_tx = "closed"
              /\ control_task' = "exited"
              /\ UNCHANGED <<fetch_concurrency, shutdown_requested, retry_rx, control_rx>>
    /\ UNCHANGED <<control_tx, ui_script, pc, poolVars, evVars, envVars, call, tui, psu, appVars, uiVars,
                   crawlVars, browserVars>>

(***************************************************************************)
(* The fetch pool: fetch_missing_urls (crawl.rs 2254-2361).                *)
(***************************************************************************)
SetLen == Cardinality(set) + set_extra

\* Entry: the early return on shutdown, then the deduplicated queue.
fm_entry ==
    /\ pc = "fm_entry"
    /\ IF shutdown_requested
          THEN /\ pc' = fm_ret
               /\ UNCHANGED <<queue, queue_extra>>
          ELSE /\ pc' = "fm_top"
               /\ queue' = DedupKeepFirst(fm_input.urls)
               /\ queue_extra' = fm_input.extra
    /\ UNCHANGED <<ctlVars, fm_ret, fm_input, set, set_extra, conc_loaded, spawned,
                   spawned_extra, batch, evVars, envVars, call, tui, psu, appVars, uiVars, crawlVars,
                   browserVars>>

\* loop { if shutdown { set.abort_all(); drain; break } ..
fm_top ==
    /\ pc = "fm_top"
    /\ IF shutdown_requested
          THEN /\ set' = {}
               /\ set_extra' = 0
               /\ pc' = fm_ret
          ELSE /\ pc' = "fm_while"
               /\ UNCHANGED <<set, set_extra>>
    /\ UNCHANGED <<ctlVars, fm_ret, fm_input, queue, queue_extra, conc_loaded,
                   spawned, spawned_extra, batch, evVars, envVars, call, tui, psu, appVars, uiVars,
                   crawlVars, browserVars>>

\* (a mutant of the loop test: off by one)
spawn_allowed_off_by_one(in_flight, loaded) == in_flight <= loaded

\* The loop test of the spawn loop, given the value it loads from the cell.
spawn_allowed(in_flight, loaded) == in_flight < loaded

\* while set.len() < current_fetch_concurrency(&concurrency) {
fm_while ==
    /\ pc = "fm_while"
    /\ conc_loaded' = current_fetch_concurrency(fetch_concurrency)
    /\ pc' = IF spawn_allowed(SetLen, conc_loaded') THEN "fm_body" ELSE "fm_after"
    /\ UNCHANGED <<ctlVars, fm_ret, fm_input, queue, queue_extra, set, set_extra,
                   spawned, spawned_extra, batch, evVars, envVars, call, tui, psu, appVars, uiVars,
                   crawlVars, browserVars>>

\* .. if shutdown { break } let Some(url) = queue.pop_front() else { break };
\*    set.spawn(process_single_url(url, ..)) }
fm_body ==
    /\ pc = "fm_body"
    /\ IF shutdown_requested \/ (queue = <<>> /\ queue_extra = 0)
          THEN /\ pc' = "fm_after"
               /\ UNCHANGED <<queue, queue_extra, set, set_extra, spawned,
                              spawned_extra>>
          ELSE /\ pc' = "fm_while"
               /\ IF queue # <<>>
                     THEN /\ queue' = Tail(queue)
                          /\ set' = set \cup {Head(queue)}
                          /\ spawned' = [spawned EXCEPT ![Head(queue)] = @ + 1]
                          /\ UNCHANGED <<queue_extra, set_extra, spawned_extra>>
                     ELSE /\ queue_extra' = queue_extra - 1
                          /\ set_extra' = set_extra + 1
                          /\ spawned_extra' = spawned_extra + 1
                          /\ UNCHANGED <<queue, set, spawned>>
    /\ UNCHANGED <<ctlVars, fm_ret, fm_input, conc_loaded, batch, evVars, envVars, call, tui, psu,
                   appVars, uiVars, crawlVars, browserVars>>

\* What follows the spawn loop: "return" (set empty), "abort" (shutdown) or
\* "join".
after_spawn(in_flight, flag) ==
    IF in_flight = 0 THEN "return" ELSE IF flag THEN "abort" ELSE "join"

\* if set.is_empty() { break } if shutdown { set.abort_all(); drain; break }
fm_after ==
    /\ pc = "fm_after"
    /\ LET next == after_spawn(SetLen, shutdown_requested)
       IN  /\ pc' = IF next = "join" THEN "fm_join" ELSE fm_ret
           /\ IF next = "abort"
                 THEN set' = {} /\ set_extra' = 0
                 ELSE UNCHANGED <<set, set_extra>>
    /\ UNCHANGED <<ctlVars, fm_ret, fm_input, queue, queue_extra, conc_loaded,
                   spawned, spawned_extra, batch, evVars, envVars, call, tui, psu, appVars, uiVars,
                   crawlVars, browserVars>>

\* if let Some(joined) = set.join_next().await { for event in events { tx.send } }
fm_join ==
    /\ pc = "fm_join"
    /\ pc' = "fm_top"
    /\ IF SetLen = 0
          THEN UNCHANGED <<set, set_extra, tx, tx_extra>>
          ELSE \/ \E url \in set, resp \in Responses :
                    /\ set' = set \ {url}
                    /\ tx' = tx \o process_single_url(redirects, url, resp, batch)
                    /\ UNCHANGED <<set_extra, tx_extra>>
               \/ /\ set_extra > 0
                  /\ set_extra' = set_extra - 1
                  /\ tx_extra' = tx_extra + 1
                  /\ UNCHANGED <<set, tx>>
    /\ UNCHANGED <<ctlVars, fm_ret, fm_input, queue, queue_extra, conc_loaded,
                   spawned, spawned_extra, batch, envVars, call, tui, psu, appVars, uiVars, crawlVars,
                   browserVars>>

(***************************************************************************)
(* SpecPool: one call of fetch_missing_urls, with a client of the control  *)
(* channel changing the concurrency and requesting shutdown meanwhile.     *)
(***************************************************************************)
NoRedirects(n) == [u \in 1..n |-> 0]

\* Each URL redirects to the next one, the last one answers.
ChainRedirects(n) == [u \in 1..n |-> IF u < n THEN u + 1 ELSE 0]

\* Each URL redirects to the next one, the last one to the first.
CycleRedirects(n) == [u \in 1..n |-> (u % n) + 1]

\* The start URL redirects to another host.
ForeignRedirects(n) == [u \in 1..n |-> IF u = 1 THEN ForeignUrl ELSE 0]

RedirectGraphs ==
    {NoRedirects(SmallSite), ChainRedirects(SmallSite), CycleRedirects(SmallSite),
     ForeignRedirects(SmallSite)}

\* The clients of a pool run: every order of n commands that reach the pool.
PoolScripts(n) == [1..n -> {"SetFetchConcurrency", "Shutdown"}]

\* The inputs of the pool: every short list with any site, and the large input
\* (whose URLs are not told apart) with a site that does not redirect.
PoolInputs ==
    {<<[urls |-> l, extra |-> 0], g, c>> :
        l \in SeqsUpTo(1..SmallSite, MaxListLen), g \in RedirectGraphs,
        c \in PoolScripts(MaxCommands)}
        \cup {<<[urls |-> <<>>, extra |-> ExtraUrls], NoRedirects(SmallSite), c>> :
                  c \in PoolScripts(LoadCommands)}

\* The Cli of a run.
Options(webdriver, required, depth, sitemap) ==
    [fetch_concurrency |-> 0, url |-> 1, webdriver |-> webdriver,
     webdriver_required |-> required, depth |-> depth, seed_sitemap |-> sitemap]

\* The machine: what prepare_webdriver_backend finds, whether a WebDriver session
\* can be created, whether the spider build has the `sync` feature, and whether
\* calls of the WebDriver session can fail.
World(driver, created, sync) ==
    [driver |-> driver, session |-> created, sync |-> sync, flaky |-> FALSE]

\* The same machine with a WebDriver whose calls can fail.
Flaky(w) == [w EXCEPT !.flaky = TRUE]

\* No call of process_single_url is followed step by step.
NoCall == [pc |-> "none"]

\* The locals of the backends before the run starts.
IdleBackends ==
    /\ queue = <<>>
    /\ queue_extra = 0
    /\ set = {}
    /\ set_extra = 0
    /\ conc_loaded = 0
    /\ spawned = [u \in AllUrls |-> 0]
    /\ spawned_extra = 0
    /\ batch = 1
    /\ tx_extra = 0
    /\ enable_webdriver = FALSE
    /\ driver_process = "none"
    /\ crawl_task = "none"
    /\ subscription = <<>>
    /\ sub_skipped = 0
    /\ spider_visited = {}
    /\ spider_links = {}
    /\ seen_urls = {}
    /\ discovered_from_pages = {}
    /\ retryable_5xx_urls = {}
    /\ session = "none"
    /\ discovered = {}
    /\ visited = {}
    /\ bqueue = <<>>
    /\ fetch_set = [u \in AllUrls |-> 0]
    /\ canceled = FALSE
    /\ br_cur = NoEntry
    /\ br_ret = "none"

\* AppState::default(), but for `done`.
DefaultState ==
    [parsed |-> 0, discovered_targets |-> 0, all_rows |-> <<>>, rows |-> <<>>,
     seen |-> {}, discovered_seen |-> {}, incoming_links |-> <<>>,
     outgoing_links |-> <<>>, errors |-> <<>>, status_messages |-> <<>>,
     status_counts |-> <<>>, issue_counts |-> <<>>, title_counts |-> <<>>,
     meta_counts |-> <<>>]

\* OutputSink::new
NewSink == [rows |-> <<>>, failed |-> FALSE]

Idle ==
    /\ IdleBackends
    /\ tx = <<>>
    /\ done = FALSE
    /\ rx_pos = 0
    /\ state = DefaultState
    /\ sink = NewSink
    /\ psu = NoCall
    /\ call = NoCall
    /\ tui = NoCall

InitPool ==
    /\ cli \in [fetch_concurrency : ConcurrencyInputs, url : {1}, webdriver : {FALSE},
                webdriver_required : {FALSE}, depth : {0}, seed_sitemap : {FALSE}]
    /\ fetch_concurrency = sanitize_fetch_concurrency(cli.fetch_concurrency)
    /\ shutdown_requested = FALSE
    /\ control_rx = <<>>
    /\ control_tx = "open"
    /\ control_task = "running"
    /\ retry_rx = <<>>
    /\ pc = "fm_entry"
    /\ fm_ret = "caller"
    /\ \E p \in PoolInputs :
          fm_input = p[1] /\ redirects = p[2] /\ ui_script = p[3]
    /\ world = World("failed", FALSE, TRUE)
    /\ Idle

NextPool ==
    \/ SendSetFetchConcurrency
    \/ SendShutdown
    \/ ControlTask
    \/ fm_entry
    \/ fm_top
    \/ fm_while
    \/ fm_body
    \/ fm_after
    \/ fm_join

SpecPool == InitPool /\ [][NextPool]_vars

(***************************************************************************)
(* The site seen by the discovery backends.                                *)
(***************************************************************************)
\* The URL ids stand for normalized URLs; those of Urls are on the start URL's
\* host.
is_same_host(url) == url \in Urls

\* The pages of the site are the URLs of DOMAIN graph.  The links of the page at
\* `url`: the next page of the site, and from its last page a link to another
\* host.
SiteLinks(graph, url) ==
    IF url \notin DOMAIN graph THEN {}
    ELSE IF url + 1 \in DOMAIN graph THEN {url + 1} ELSE {ForeignUrl}

\* filter_crawlable_links: the links on the root host, without duplicates.
filter_crawlable_links(links) == {l \in links : is_same_host(l)}

RECURSIVE SortedSeq(_)
\* v.sort(); v.dedup() of the elements of a set.
SortedSeq(S) ==
    IF S = {} THEN <<>>
    ELSE LET m == CHOOSE x \in S : \A y \in S : x <= y
         IN  <<m>> \o SortedSeq(S \ {m})

\* The statuses the site answers a discovery request with.
SpiderStatuses == {200, 503}

\* The spider::page::Page of a request: the spider follows the redirects, so the
\* status is the one of the last URL (a redirect when the chain does not end).
spider_page(graph, url, status) ==
    LET final == raw_redirect_rows(graph, url, 8).final
    IN  [requested |-> url, final |-> final,
         status |-> IF final \in DOMAIN graph /\ graph[final] # 0 THEN 301 ELSE status]

\* page_to_row: the URL of the row.
page_row_url(page) ==
    IF page.status \in 300..399 THEN page.requested
    ELSE IF page.final # page.requested THEN page.final
    ELSE page.requested

stop_webdriver(child) == IF child = "running" THEN "stopped" ELSE child

\* AbortTaskOnDrop: run_crawler's return aborts the control task if it still runs.
drop_guard(task) == IF task = "running" THEN "aborted" ELSE task

(***************************************************************************)
(* The clients of the control channel and the consumer of the events.      *)
(***************************************************************************)
\* The URLs of the rows the consumer has built from the events it handled.
RowUrls == {tx[i].url : i \in {j \in 1..rx_pos : tx[j].kind \in {"Page", "Unretrieved"}}}

\* draw_loop, key 't' (a RetryUrls for the selected row) and the retry prompt
\* (here: scope Complete, every row): a successful send clears `done`.
SendRetryUrls ==
    /\ control_tx = "open"
    /\ ui_script # <<>> /\ Head(ui_script) = "RetryUrls"
    /\ RowUrls # {}
    /\ \E urls \in {<<u>> : u \in RowUrls} \cup {SortedSeq(RowUrls)} :
          control_rx' = Append(control_rx, Cmd("RetryUrls", 0, urls))
    /\ ui_script' = Tail(ui_script)
    /\ done' = FALSE
    /\ UNCHANGED <<fetch_concurrency, shutdown_requested, control_tx, control_task,
                   retry_rx, pc, poolVars, evVars, envVars, call, tui, psu, appVars, rx_pos, crawlVars,
                   browserVars>>

\* run(): drop(control_tx) of the headless mode; draw_loop's return after the
\* client's last command.
DropControlTx ==
    /\ control_tx = "open"
    /\ ui_script = <<>>
    /\ control_tx' = "closed"
    /\ UNCHANGED <<fetch_concurrency, shutdown_requested, control_rx, control_task,
                   retry_rx, ui_script, pc, poolVars, evVars, envVars, call, tui, psu, appVars, uiVars,
                   crawlVars, browserVars>>

\* run_headless and draw_loop: `while let Ok(event) = rx.try_recv()` handles
\* the events sent so far; handle_crawl_event sets `done` on Finished.
HandleEvent ==
    /\ rx_pos < Len(tx)
    /\ rx_pos' = Len(tx)
    /\ done' = (done \/ \E i \in (rx_pos + 1)..Len(tx) : tx[i].kind = "Finished")
    /\ UNCHANGED <<ctlVars, pc, poolVars, evVars, envVars, call, tui, psu, appVars, crawlVars, browserVars>>

(***************************************************************************)
(* The spider crawl task of the HTTP discovery backend (crawl.rs 260-271). *)
(***************************************************************************)
\* sender.send(page) on the broadcast channel of capacity ChannelCapacity: a full
\* channel loses its oldest page for the subscription.
broadcast(sub, skipped, page) ==
    IF Len(sub) >= Max(ChannelCapacity, 1) THEN <<Append(Tail(sub), page), skipped + 1>>
    ELSE <<Append(sub, page), skipped>>

SpiderVisit ==
    /\ crawl_task = "running"
    /\ \E url \in (({cli.url} \cup spider_links) \cap DOMAIN redirects) \ spider_visited,
          status \in SpiderStatuses :
          LET page == spider_page(redirects, url, status)
              sent == broadcast(subscription, sub_skipped, page)
          IN  /\ subscription' = sent[1]
              /\ sub_skipped' = sent[2]
              /\ spider_visited' = spider_visited \cup {url}
              /\ spider_links' = spider_links \cup SiteLinks(redirects, page.final)
    /\ UNCHANGED <<ctlVars, pc, poolVars, evVars, envVars, call, tui, psu, appVars, uiVars, rcVars,
                   crawl_task,
                   httpVars, browserVars>>

\* website.crawl() returns (it may have missed pages), or the task panics.
SpiderDone ==
    /\ crawl_task = "running"
    /\ crawl_task' \in {"finished", "panicked"}
    /\ UNCHANGED <<ctlVars, pc, poolVars, evVars, envVars, call, tui, psu, appVars, uiVars, rcVars,
                   subscription, sub_skipped, spider_visited, spider_links,
                   httpVars, browserVars>>

(***************************************************************************)
(* run_crawler (crawl.rs 81-404): start, WebDriver preparation, the HTTP   *)
(* discovery loop and the reconciliation.                                  *)
(***************************************************************************)
Finished == NoteEv("Finished", batch)

\* (a mutant of the webdriver-required failure: it ends the run without the
\* seed's Unretrieved record)
required_failure_without_record(error, seed, src) ==
    error \o <<NoteEv("Finished", src)>>

\* The events of the webdriver-required failure (crawl.rs 159-166, 228-232).
required_failure_events(error, seed, src) ==
    error \o <<UnretrievedEv(seed, seed, src), NoteEv("Finished", src)>>

\* (a mutant of the exits on Shutdown: they return without the Finished event)
shutdown_exit_silent(src) == <<>>

\* The events of the exits on Shutdown (crawl.rs 221, 330).
shutdown_exit_events(src) == <<NoteEv("Finished", src)>>

\* Lines 86-117: the missing-URL exit, the atomics and the control task.
rc_start ==
    /\ pc = "rc_start"
    /\ IF cli.url = 0
         THEN /\ tx' = tx \o <<NoteEv("Error", batch), Finished>>
              /\ pc' = "returned"
              /\ UNCHANGED <<fetch_concurrency, shutdown_requested, control_task,
                             enable_webdriver>>
         ELSE /\ fetch_concurrency' = sanitize_fetch_concurrency(cli.fetch_concurrency)
              /\ shutdown_requested' = FALSE
              /\ control_task' = "running"
              /\ enable_webdriver' = cli.webdriver
              /\ pc' = IF cli.webdriver THEN "rc_prepare" ELSE "rc_subscribe"
              /\ tx' = tx
    /\ UNCHANGED <<control_rx, control_tx, retry_rx, ui_script, poolVars, tx_extra,
                   envVars, call, tui, psu, appVars, uiVars, driver_process, spiderVars, httpVars,
                   browserVars>>

\* Lines 149-176: prepare_webdriver_backend succeeds with a driver it started
\* ("managed") or with an external endpoint, or fails.
rc_prepare ==
    /\ pc = "rc_prepare"
    /\ LET outcome == world.driver
       IN IF outcome # "failed"
            THEN /\ driver_process' = IF outcome = "managed" THEN "running" ELSE "none"
                 /\ tx' = Append(tx, NoteEv("Status", batch))
                 /\ pc' = "br_entry"
                 /\ UNCHANGED <<enable_webdriver, control_task>>
          ELSE IF cli.webdriver_required
            THEN /\ tx' = tx \o required_failure_events(<<NoteEv("Error", batch)>>,
                                                        cli.url, batch)
                 /\ pc' = "returned"
                 /\ control_task' = drop_guard(control_task)
                 /\ UNCHANGED <<enable_webdriver, driver_process>>
          ELSE   /\ tx' = Append(tx, NoteEv("Status", batch))
                 /\ enable_webdriver' = FALSE
                 /\ pc' = "rc_subscribe"
                 /\ UNCHANGED <<driver_process, control_task>>
    /\ UNCHANGED <<fetch_concurrency, shutdown_requested, control_rx, control_tx,
                   retry_rx, ui_script, poolVars, tx_extra, envVars, call, tui, psu, appVars, uiVars,
                   spiderVars, httpVars, browserVars>>

\* Lines 241-271: without a subscription the crawl runs unobserved and the run
\* ends; with one the crawl task is spawned.
rc_subscribe ==
    /\ pc = "rc_subscribe"
    /\ LET available == world.sync
       IN IF available
            THEN /\ crawl_task' = "running"
                 /\ batch' = batch + 1
                 /\ pc' = "http_top"
                 /\ UNCHANGED <<tx, driver_process, control_task>>
            ELSE /\ tx' = tx \o <<NoteEv("Error", batch), NoteEv("Stats", batch), Finished>>
                 /\ driver_process' = stop_webdriver(driver_process)
                 /\ pc' = "returned"
                 /\ control_task' = drop_guard(control_task)
                 /\ UNCHANGED <<crawl_task, batch>>
    /\ UNCHANGED <<fetch_concurrency, shutdown_requested, control_rx, control_tx,
                   retry_rx, ui_script, fm_ret, fm_input, queue, queue_extra, set,
                   set_extra, conc_loaded, spawned, spawned_extra, tx_extra, envVars, call, tui, psu,
                   appVars,
                   uiVars, enable_webdriver, subscription, sub_skipped,
                   spider_visited, spider_links, httpVars, browserVars>>

\* Lines 273-276: the shutdown test at the top of the loop.
http_top ==
    /\ pc = "http_top"
    /\ pc' = IF shutdown_requested THEN "http_exit" ELSE "http_select"
    /\ UNCHANGED <<ctlVars, poolVars, evVars, envVars, call, tui, psu, appVars, uiVars, crawlVars,
                   browserVars>>

\* Lines 279-314: the events of one received page, the redirect hops first.
http_page_events(graph, page, src) ==
    LET rows == IF page.requested # page.final
                  THEN raw_redirect_rows(graph, page.requested, 8).rows ELSE <<>>
    IN  [i \in 1..Len(rows) |-> HopEv(rows[i][1], page.requested, src)]
            \o <<[kind |-> "Page", url |-> page_row_url(page), hop |-> FALSE,
                  req |-> page.requested, src |-> src, status |-> page.status]>>

\* (a mutant of the Lagged arm: nothing is reported)
lagged_events_silent(src) == <<>>

\* Err(RecvError::Lagged(skipped)) => { tx.send(CrawlEvent::Error(..)); continue; }
lagged_events(src) == <<NoteEv("Error", src)>>

\* Lines 277-324: the select! of subscription.recv() and the 120 ms sleep.
http_select ==
    /\ pc = "http_select"
    /\ \/ /\ sub_skipped > 0
          /\ tx' = tx \o lagged_events(batch)
          /\ sub_skipped' = 0
          /\ pc' = "http_top"
          /\ UNCHANGED <<subscription, httpVars>>
       \/ /\ sub_skipped = 0
          /\ subscription # <<>>
          /\ LET page == Head(subscription)
                 row_url == page_row_url(page)
             IN  /\ tx' = tx \o http_page_events(redirects, page, batch)
                 /\ seen_urls' = seen_urls \cup {row_url}
                 /\ retryable_5xx_urls' =
                        IF page.status \in 500..599
                          THEN retryable_5xx_urls \cup {row_url}
                        ELSE retryable_5xx_urls \ {row_url}
                 /\ discovered_from_pages' =
                        discovered_from_pages
                            \cup filter_crawlable_links(SiteLinks(redirects, page.final))
          /\ subscription' = Tail(subscription)
          /\ pc' = "http_top"
          /\ UNCHANGED sub_skipped
       \/ /\ sub_skipped = 0
          /\ subscription = <<>>
          /\ crawl_task \in {"finished", "panicked"}
          /\ pc' = "http_exit"
          /\ UNCHANGED <<tx, subscription, sub_skipped, httpVars>>
       \/ /\ pc' = "http_top"
          /\ UNCHANGED <<tx, subscription, sub_skipped, httpVars>>
    /\ UNCHANGED <<ctlVars, poolVars, tx_extra, envVars, call, tui, psu, appVars, uiVars, rcVars,
                   crawl_task,
                   spider_visited, spider_links, browserVars>>

\* Lines 341-360: the URLs the reconciliation fetches.
recovery_urls(links, from_pages, seed, seen, retryable) ==
    SortedSeq(({u \in links \cup from_pages \cup {seed} : is_same_host(u)} \ seen)
                  \cup retryable)

\* Lines 327-392 up to the call of fetch_missing_urls.
http_exit ==
    /\ pc = "http_exit"
    /\ IF shutdown_requested
         THEN /\ crawl_task' = IF crawl_task = "running" THEN "aborted" ELSE crawl_task
              /\ tx' = tx \o shutdown_exit_events(batch)
              /\ driver_process' = stop_webdriver(driver_process)
              /\ pc' = "returned"
              /\ control_task' = drop_guard(control_task)
              /\ UNCHANGED <<fm_ret, fm_input, spawned, batch>>
       ELSE IF crawl_task = "panicked"
         THEN /\ tx' = tx \o <<NoteEv("Error", batch), Finished>>
              /\ driver_process' = stop_webdriver(driver_process)
              /\ pc' = "retry_top"
              /\ UNCHANGED <<crawl_task, control_task, fm_ret, fm_input, spawned, batch>>
       ELSE LET recovery == recovery_urls(spider_links, discovered_from_pages, cli.url,
                                          seen_urls, retryable_5xx_urls)
            IN  IF recovery = <<>>
                  THEN /\ tx' = tx \o <<NoteEv("Stats", batch), Finished>>
                       /\ driver_process' = stop_webdriver(driver_process)
                       /\ pc' = "retry_top"
                       /\ UNCHANGED <<crawl_task, control_task, fm_ret, fm_input,
                                      spawned, batch>>
                ELSE   /\ tx' = tx \o <<NoteEv("Stats", batch), NoteEv("Error", batch)>>
                       /\ fm_input' = [urls |-> recovery, extra |-> 0]
                       /\ fm_ret' = "rc_finish"
                       /\ spawned' = [u \in AllUrls |-> 0]
                       /\ batch' = batch + 1
                       /\ pc' = "fm_entry"
                       /\ UNCHANGED <<crawl_task, control_task, driver_process>>
    /\ UNCHANGED <<fetch_concurrency, shutdown_requested, control_rx, control_tx,
                   retry_rx, ui_script, queue, queue_extra, set, set_extra,
                   conc_loaded, spawned_extra, tx_extra, envVars, call, tui, psu, appVars, uiVars,
                   enable_webdriver, subscription, sub_skipped, spider_visited,
                   spider_links, httpVars, browserVars>>

\* Lines 386 and 393: after the reconciliation fetch.
rc_finish ==
    /\ pc = "rc_finish"
    /\ tx' = Append(tx, Finished)
    /\ driver_process' = stop_webdriver(driver_process)
    /\ pc' = "retry_top"
    /\ UNCHANGED <<ctlVars, poolVars, tx_extra, envVars, call, tui, psu, appVars, uiVars, enable_webdriver,
                   spiderVars, httpVars, browserVars>>

(***************************************************************************)
(* process_retry_commands (crawl.rs 13-79).                                *)
(***************************************************************************)
\* Lines 40-46: the normalized URLs of the root host, sorted, without duplicates.
retry_filter(urls) == SortedSeq({u \in Range(urls) : is_same_host(u)})

\* Lines 22-25, and the end of run_crawler when the loop is left.
retry_top ==
    /\ pc = "retry_top"
    /\ IF shutdown_requested
         THEN pc' = "returned" /\ control_task' = drop_guard(control_task)
         ELSE pc' = "retry_select" /\ UNCHANGED control_task
    /\ UNCHANGED <<fetch_concurrency, shutdown_requested, control_rx, control_tx,
                   retry_rx, ui_script, poolVars, evVars, envVars, call, tui, psu, appVars, uiVars,
                   crawlVars,
                   browserVars>>

\* Lines 27-28 and 40-73: retry_rx.recv() yields a command; the loop filters
\* it and, unless nothing is left, calls fetch_missing_urls.
retry_recv ==
    /\ pc = "retry_select"
    /\ retry_rx # <<>>
    /\ retry_rx' = Tail(retry_rx)
    /\ LET normalized == retry_filter(Head(retry_rx).urls)
       IN  IF normalized = <<>>
             THEN /\ tx' = Append(tx, NoteEv("Status", batch))
                  /\ pc' = "retry_top"
                  /\ UNCHANGED <<fm_ret, fm_input, spawned, batch>>
             ELSE /\ tx' = Append(tx, NoteEv("Status", batch))
                  /\ fm_input' = [urls |-> normalized, extra |-> 0]
                  /\ fm_ret' = "retry_after"
                  /\ spawned' = [u \in AllUrls |-> 0]
                  /\ batch' = batch + 1
                  /\ pc' = "fm_entry"
    /\ UNCHANGED <<fetch_concurrency, shutdown_requested, control_rx, control_tx,
                   control_task, ui_script, queue, queue_extra, set, set_extra,
                   conc_loaded, spawned_extra, tx_extra, envVars, call, tui, psu, appVars, uiVars,
                   crawlVars,
                   browserVars>>

\* (a mutant: the sender of the retry channel outlives the control task)
retry_tx_kept(task) == FALSE

\* retry_tx was moved into the control task (`async move`), so it is dropped
\* when the task ends or is aborted.
retry_tx_dropped(task) == task \in {"exited", "aborted"}

\* Lines 27-38: retry_rx.recv() yields None once the control task has ended,
\* and run_crawler returns.
retry_closed ==
    /\ pc = "retry_select"
    /\ retry_rx = <<>>
    /\ retry_tx_dropped(control_task)
    /\ pc' = "returned"
    /\ control_task' = drop_guard(control_task)
    /\ UNCHANGED <<fetch_concurrency, shutdown_requested, control_rx, control_tx,
                   retry_rx, ui_script, poolVars, evVars, envVars, call, tui, psu, appVars, uiVars,
                   crawlVars,
                   browserVars>>

\* Lines 29-35: the 120 ms sleep ends first.
retry_sleep ==
    /\ pc = "retry_select"
    /\ IF shutdown_requested
         THEN pc' = "returned" /\ control_task' = drop_guard(control_task)
         ELSE pc' = "retry_top" /\ UNCHANGED control_task
    /\ UNCHANGED <<fetch_concurrency, shutdown_requested, control_rx, control_tx,
                   retry_rx, ui_script, poolVars, evVars, envVars, call, tui, psu, appVars, uiVars,
                   crawlVars,
                   browserVars>>

\* Lines 27-38: the select!.
retry_select == retry_recv \/ retry_closed \/ retry_sleep

\* Lines 74-77: after the batch.
retry_after ==
    /\ pc = "retry_after"
    /\ IF shutdown_requested
         THEN pc' = "returned" /\ control_task' = drop_guard(control_task) /\ tx' = tx
         ELSE pc' = "retry_top" /\ tx' = Append(tx, Finished) /\ UNCHANGED control_task
    /\ UNCHANGED <<fetch_concurrency, shutdown_requested, control_rx, control_tx,
                   retry_rx, ui_script, poolVars, tx_extra, envVars, call, tui, psu, appVars, uiVars,
                   crawlVars,
                   browserVars>>

(***************************************************************************)
(* browser_discover_and_fetch (crawl.rs 964-1192) and the branches of      *)
(* run_crawler on its result (crawl.rs 195-237).                           *)
(***************************************************************************)
RECURSIVE SumOver(_, _)
SumOver(f, S) ==
    IF S = {} THEN 0
    ELSE LET x == CHOOSE y \in S : TRUE IN f[x] + SumOver(f, S \ {x})

\* fetch_set.len()
FetchLen == SumOver(fetch_set, AllUrls)

\* The URLs the sitemap of the site lists.
SitemapUrls == {SmallSite}

\* Lines 994-1024 and, when the session cannot be created, lines 219-237.
br_entry ==
    /\ pc = "br_entry"
    /\ LET created == world.session
       IN IF created
            THEN /\ session' = "open"
                 /\ batch' = batch + 1
                 /\ fetch_set' = [fetch_set EXCEPT ![cli.url] = @ + 1]
                 /\ IF ~cli.seed_sitemap
                      THEN /\ discovered' = {cli.url}
                           /\ bqueue' = <<<<cli.url, 0>>>>
                           /\ canceled' = FALSE
                           /\ pc' = "br_loop"
                    ELSE IF shutdown_requested
                      THEN /\ discovered' = {cli.url}
                           /\ bqueue' = <<<<cli.url, 0>>>>
                           /\ canceled' = TRUE
                           /\ pc' = "br_cancel"
                    ELSE   /\ discovered' = {cli.url} \cup SitemapUrls
                           /\ bqueue' = <<<<cli.url, 0>>>>
                                  \o [i \in 1..Len(SortedSeq(SitemapUrls \ {cli.url})) |->
                                        <<SortedSeq(SitemapUrls \ {cli.url})[i], 0>>]
                           /\ canceled' = FALSE
                           /\ pc' = "br_loop"
                 /\ UNCHANGED <<tx, enable_webdriver, driver_process, control_task>>
          ELSE IF shutdown_requested
            THEN /\ tx' = tx \o shutdown_exit_events(batch)
                 /\ driver_process' = stop_webdriver(driver_process)
                 /\ pc' = "returned"
                 /\ control_task' = drop_guard(control_task)
                 /\ UNCHANGED <<session, batch, fetch_set, discovered, bqueue, canceled,
                                enable_webdriver>>
          ELSE IF cli.webdriver_required
            THEN /\ tx' = tx \o required_failure_events(<<NoteEv("Status", batch)>>,
                                                        cli.url, batch)
                 /\ driver_process' = stop_webdriver(driver_process)
                 /\ pc' = "returned"
                 /\ control_task' = drop_guard(control_task)
                 /\ UNCHANGED <<session, batch, fetch_set, discovered, bqueue, canceled,
                                enable_webdriver>>
          ELSE   /\ tx' = Append(tx, NoteEv("Status", batch))
                 /\ driver_process' = stop_webdriver(driver_process)
                 /\ enable_webdriver' = FALSE
                 /\ pc' = "rc_subscribe"
                 /\ UNCHANGED <<session, batch, fetch_set, discovered, bqueue, canceled,
                                control_task>>
    /\ UNCHANGED <<fetch_concurrency, shutdown_requested, control_rx, control_tx,
                   retry_rx, ui_script, fm_ret, fm_input, queue, queue_extra, set,
                   set_extra, conc_loaded, spawned, spawned_extra, tx_extra, envVars, call, tui, psu,
                   appVars,
                   uiVars, spiderVars, httpVars, visited, br_cur, br_ret>>

\* What the browser did with one URL: the navigation failed, or it succeeded and
\* the link extraction and the rendered snapshot each succeeded or failed.
BrowserOutcomes ==
    IF world.flaky
      THEN {[navigate |-> FALSE, extract |-> FALSE, snapshot |-> FALSE]}
               \cup [navigate : {TRUE}, extract : BOOLEAN, snapshot : BOOLEAN]
    ELSE {[navigate |-> TRUE, extract |-> TRUE, snapshot |-> TRUE]}

\* Lines 1036-1104: the events of one visited URL up to the first wait for a
\* free fetch slot.  The browser renders the URL the redirects end at.
browser_visit_events(graph, url, outcome, src) ==
    LET probe == raw_redirect_rows(graph, url, 8)
        hops == [i \in 1..Len(probe.rows) |-> HopEv(probe.rows[i][1], url, src)]
    IN  IF ~outcome.navigate THEN Append(hops, ErrorEv(url, src))
        ELSE hops
               \o (IF outcome.extract THEN <<>> ELSE <<ErrorEv(url, src)>>)
               \o (IF outcome.snapshot THEN <<PageEv(probe.final, url, src)>>
                   ELSE <<ErrorEv(url, src)>>)

\* Lines 1027-1104: the head of one iteration of the visit loop.
br_loop ==
    /\ pc = "br_loop"
    /\ IF bqueue = <<>>
         THEN /\ pc' = "br_final"
              /\ UNCHANGED <<tx, bqueue, visited, canceled, br_cur, br_ret>>
       ELSE IF shutdown_requested
         THEN /\ bqueue' = Tail(bqueue)
              /\ canceled' = TRUE
              /\ pc' = "br_cancel"
              /\ UNCHANGED <<tx, visited, br_cur, br_ret>>
       ELSE IF Head(bqueue)[1] \in visited
         THEN /\ bqueue' = Tail(bqueue)
              /\ pc' = "br_loop"
              /\ UNCHANGED <<tx, visited, canceled, br_cur, br_ret>>
       ELSE \E outcome \in BrowserOutcomes :
              LET url == Head(bqueue)[1]
                  links == IF outcome.navigate /\ outcome.extract
                             THEN filter_crawlable_links(
                                      SiteLinks(redirects,
                                                raw_redirect_rows(redirects, url, 8).final))
                           ELSE {}
              IN  /\ bqueue' = Tail(bqueue)
                  /\ visited' = visited \cup {url}
                  /\ tx' = tx \o browser_visit_events(redirects, url, outcome, batch)
                  /\ br_cur' = [url |-> url, depth |-> Head(bqueue)[2],
                                links |-> SortedSeq(links)]
                  /\ br_ret' = IF ~outcome.navigate THEN "navigate"
                               ELSE IF ~outcome.snapshot THEN "snapshot" ELSE "none"
                  /\ pc' = IF outcome.navigate /\ outcome.snapshot
                             THEN "br_links" ELSE "br_wait"
                  /\ UNCHANGED canceled
    /\ UNCHANGED <<ctlVars, poolVars, tx_extra, envVars, call, tui, psu, appVars, uiVars, crawlVars,
                   session,
                   discovered, fetch_set>>

\* (a mutant of the wait loop's test: off by one)
wait_needed_above(in_flight, loaded) == in_flight > loaded

\* The test of `while fetch_set.len() >= current_fetch_concurrency(..)`, given
\* the value it loads from the cell.
wait_needed(in_flight, loaded) == in_flight >= loaded

\* The URL the wait loop is about to spawn a fetch task for.
spawn_target == IF br_ret = "link" THEN Head(br_cur.links) ELSE br_cur.url

\* Lines 1051-1071, 1105-1124 and 1133-1152: one test of
\* `while fetch_set.len() >= current_fetch_concurrency(..)`, its body, and the
\* spawn after the loop.
br_wait ==
    /\ pc = "br_wait"
    /\ IF wait_needed(FetchLen, current_fetch_concurrency(fetch_concurrency))
         THEN IF shutdown_requested
                THEN /\ canceled' = TRUE
                     /\ pc' = "br_cancel"
                     /\ UNCHANGED <<tx, fetch_set, br_cur, br_ret>>
              ELSE \E url \in {u \in AllUrls : fetch_set[u] > 0}, resp \in Responses :
                     /\ fetch_set' = [fetch_set EXCEPT ![url] = @ - 1]
                     /\ tx' = tx \o process_single_url(redirects, url, resp, batch)
                     /\ pc' = "br_wait"
                     /\ UNCHANGED <<canceled, br_cur, br_ret>>
       ELSE /\ fetch_set' = [fetch_set EXCEPT ![spawn_target] = @ + 1]
            /\ br_cur' = IF br_ret = "link"
                           THEN [br_cur EXCEPT !.links = Tail(@)] ELSE br_cur
            /\ br_ret' = "none"
            /\ pc' = IF br_ret = "navigate" THEN "br_loop" ELSE "br_links"
            /\ UNCHANGED <<tx, canceled>>
    /\ UNCHANGED <<ctlVars, poolVars, tx_extra, envVars, call, tui, psu, appVars, uiVars, crawlVars,
                   session,
                   discovered, visited, bqueue>>

\* (a mutant of the depth test: one level too deep)
within_depth_inclusive(depth, depth_limit) == depth_limit = 0 \/ depth <= depth_limit

\* let unlimited_depth = depth_limit == 0; .. unlimited_depth || depth < depth_limit
within_depth(depth, depth_limit) == depth_limit = 0 \/ depth < depth_limit

\* Lines 1128-1164: the next link of the visited page, or the end of the links.
br_links ==
    /\ pc = "br_links"
    /\ IF br_cur.links = <<>>
         THEN /\ tx' = IF Cardinality(visited) % 10 = 0
                         THEN Append(tx, NoteEv("Stats", batch)) ELSE tx
              /\ pc' = "br_try_join"
              /\ UNCHANGED <<discovered, bqueue, br_cur, br_ret>>
       ELSE IF Head(br_cur.links) \in discovered
         THEN /\ br_cur' = [br_cur EXCEPT !.links = Tail(@)]
              /\ pc' = "br_links"
              /\ UNCHANGED <<tx, discovered, bqueue, br_ret>>
       ELSE IF within_depth(br_cur.depth, cli.depth)
         THEN /\ discovered' = discovered \cup {Head(br_cur.links)}
              /\ bqueue' = Append(bqueue, <<Head(br_cur.links), br_cur.depth + 1>>)
              /\ br_cur' = [br_cur EXCEPT !.links = Tail(@)]
              /\ pc' = "br_links"
              /\ UNCHANGED <<tx, br_ret>>
       ELSE   /\ discovered' = discovered \cup {Head(br_cur.links)}
              /\ br_ret' = "link"
              /\ pc' = "br_wait"
              /\ UNCHANGED <<tx, bqueue, br_cur>>
    /\ UNCHANGED <<ctlVars, poolVars, tx_extra, envVars, call, tui, psu, appVars, uiVars, crawlVars,
                   session,
                   visited, fetch_set, canceled>>

\* Lines 1166-1168: try_join_next takes the tasks that have finished.
br_try_join ==
    /\ pc = "br_try_join"
    /\ \/ \E url \in {u \in AllUrls : fetch_set[u] > 0}, resp \in Responses :
             /\ fetch_set' = [fetch_set EXCEPT ![url] = @ - 1]
             /\ tx' = tx \o process_single_url(redirects, url, resp, batch)
             /\ pc' = "br_try_join"
       \/ /\ pc' = "br_loop"
          /\ UNCHANGED <<tx, fetch_set>>
    /\ UNCHANGED <<ctlVars, poolVars, tx_extra, envVars, call, tui, psu, appVars, uiVars, crawlVars,
                   session,
                   discovered, visited, bqueue, canceled, br_cur, br_ret>>

\* (a mutant of webdriver_delete_session: the request is not sent)
webdriver_delete_session_skipped(s) == s

\* webdriver_delete_session: the DELETE request for the session; its result is
\* dropped by the caller (`let _ =`).  A second request for a session already
\* deleted is told apart.
webdriver_delete_session(s) ==
    CASE s = "open" -> "deleted"
      [] s = "deleted" -> "deleted_twice"
      [] OTHER -> s

\* (a mutant of abort_all: the tasks stay in flight)
abort_all_skipped(tasks) == tasks

\* fetch_set.abort_all(); while fetch_set.join_next().await.is_some() {}
abort_all(tasks) == [u \in DOMAIN tasks |-> 0]

\* Lines 1171-1176, then lines 219-224 of run_crawler: a canceled crawl aborts
\* its fetch tasks, deletes the session and ends the run.
br_cancel ==
    /\ pc = "br_cancel"
    /\ fetch_set' = abort_all(fetch_set)
    /\ session' = webdriver_delete_session(session)
    /\ tx' = tx \o shutdown_exit_events(batch)
    /\ driver_process' = stop_webdriver(driver_process)
    /\ pc' = "returned"
    /\ control_task' = drop_guard(control_task)
    /\ UNCHANGED <<fetch_concurrency, shutdown_requested, control_rx, control_tx,
                   retry_rx, ui_script, poolVars, tx_extra, envVars, call, tui, psu, appVars, uiVars,
                   enable_webdriver, spiderVars, httpVars, discovered, visited, bqueue,
                   canceled, br_cur, br_ret>>

\* Lines 1178-1191, then lines 195-217 (or 219-224) of run_crawler.
br_final ==
    /\ pc = "br_final"
    /\ IF FetchLen = 0
         THEN /\ session' = webdriver_delete_session(session)
              /\ tx' = tx \o <<NoteEv("Stats", batch)>>
                          \o (IF Cardinality(discovered) = 0
                                THEN <<UnretrievedEv(cli.url, cli.url, batch)>> ELSE <<>>)
                          \o <<Finished>>
              /\ driver_process' = stop_webdriver(driver_process)
              /\ pc' = "retry_top"
              /\ UNCHANGED <<fetch_set, canceled, control_task>>
       ELSE \E url \in {u \in AllUrls : fetch_set[u] > 0}, resp \in Responses :
              IF shutdown_requested
                THEN /\ canceled' = TRUE
                     /\ fetch_set' = abort_all([fetch_set EXCEPT ![url] = @ - 1])
                     /\ session' = webdriver_delete_session(session)
                     /\ tx' = tx \o process_single_url(redirects, url, resp, batch)
                                 \o shutdown_exit_events(batch)
                     /\ driver_process' = stop_webdriver(driver_process)
                     /\ pc' = "returned"
                     /\ control_task' = drop_guard(control_task)
              ELSE   /\ fetch_set' = [fetch_set EXCEPT ![url] = @ - 1]
                     /\ tx' = tx \o process_single_url(redirects, url, resp, batch)
                     /\ pc' = "br_final"
                     /\ UNCHANGED <<session, canceled, driver_process, control_task>>
    /\ UNCHANGED <<fetch_concurrency, shutdown_requested, control_rx, control_tx,
                   retry_rx, ui_script, poolVars, tx_extra, envVars, call, tui, psu, appVars, uiVars,
                   enable_webdriver, spiderVars, httpVars, discovered, visited, bqueue,
                   br_cur, br_ret>>

(***************************************************************************)
(* A whole run of run_crawler with its clients.                            *)
(***************************************************************************)
\* The runs, each <<cli, redirects, ui_script, world>>: HTTP crawls with a
\* client, browser crawls, runs whose backend is not available, and a run
\* without a start URL.
HttpRuns ==
    {<<Options(FALSE, FALSE, 0, FALSE), NoRedirects(SmallSite), <<>>,
       World("failed", FALSE, TRUE)>>,
     <<Options(FALSE, FALSE, 0, FALSE), ChainRedirects(SmallSite),
       <<"RetryUrls", "Shutdown">>, World("failed", FALSE, TRUE)>>,
     <<Options(FALSE, FALSE, 0, FALSE), ChainRedirects(SmallSite),
       <<"Shutdown", "RetryUrls">>, World("failed", FALSE, TRUE)>>,
     <<Options(FALSE, FALSE, 0, FALSE), ChainRedirects(SmallSite),
       <<"Shutdown", "SetFetchConcurrency">>, World("failed", FALSE, TRUE)>>,
     <<Options(FALSE, FALSE, 0, FALSE), ForeignRedirects(SmallSite), <<"RetryUrls">>,
       World("failed", FALSE, TRUE)>>}

BrowserRuns ==
    {<<Options(TRUE, FALSE, 0, FALSE), ChainRedirects(SmallSite), <<"Shutdown">>,
       Flaky(World("managed", TRUE, TRUE))>>,
     <<Options(TRUE, FALSE, 0, FALSE), NoRedirects(SmallSite), <<>>,
       Flaky(World("external", TRUE, TRUE))>>,
     <<Options(TRUE, TRUE, 1, TRUE), NoRedirects(SmallSite),
       <<"SetFetchConcurrency", "RetryUrls">>, World("external", TRUE, TRUE)>>,
     <<Options(TRUE, FALSE, 1, FALSE), NoRedirects(NumUrls), <<"SetFetchConcurrency">>,
       World("external", TRUE, TRUE)>>}

FailingRuns ==
    {<<Options(TRUE, r, 0, FALSE), NoRedirects(SmallSite), <<"Shutdown">>,
       World(d, FALSE, y)>> : r \in BOOLEAN, d \in {"failed", "managed"}, y \in BOOLEAN}
        \cup {<<[Options(FALSE, FALSE, 0, FALSE) EXCEPT !.url = 0],
                NoRedirects(SmallSite), <<"Shutdown">>, World("failed", FALSE, TRUE)>>}

Runs == HttpRuns \cup BrowserRuns \cup FailingRuns

Init ==
    /\ \E r \in Runs : cli = r[1] /\ redirects = r[2] /\ ui_script = r[3] /\ world = r[4]
    /\ fetch_concurrency = sanitize_fetch_concurrency(cli.fetch_concurrency)
    /\ shutdown_requested = FALSE
    /\ control_rx = <<>>
    /\ control_tx = "open"
    /\ control_task = "unspawned"
    /\ retry_rx = <<>>
    /\ pc = "rc_start"
    /\ fm_ret = "caller"
    /\ fm_input = [urls |-> <<>>, extra |-> 0]
    /\ Idle

PoolStep == fm_entry \/ fm_top \/ fm_while \/ fm_body \/ fm_after \/ fm_join

Controller ==
    \/ rc_start \/ rc_prepare \/ rc_subscribe
    \/ http_top \/ http_select \/ http_exit \/ rc_finish
    \/ retry_top \/ retry_select \/ retry_after
    \/ br_entry \/ br_loop \/ br_wait \/ br_links \/ br_try_join \/ br_cancel \/ br_final
    \/ PoolStep

Client == SendSetFetchConcurrency \/ SendShutdown \/ SendRetryUrls \/ DropControlTx

Next == Controller \/ ControlTask \/ Client \/ HandleEvent \/ SpiderVisit \/ SpiderDone

Spec == Init /\ [][Next]_vars

\* The scheduler runs every task that can take a step: the controller, the
\* control task and the consumer.  A select! polls its branches in random
\* order, so a command waiting in retry_rx is eventually received.
Fairness ==
    /\ WF_vars(Controller)
    /\ WF_vars(ControlTask)
    /\ WF_vars(HandleEvent)
    /\ SF_vars(retry_recv)

SpecFair == Init /\ [][Next]_vars /\ Fairness

\* The recv branch of the select! of the HTTP consumer: a page, a lag or the
\* end of the subscription.
http_recv == http_select /\ (tx' # tx \/ pc' = "http_exit")

\* A recv() that has something to yield (a page, a lag, or the end of a closed
\* and empty channel) is ready at once, the 120 ms sleep of the other branch of
\* the select! is not: the recv branch is taken.  The crawl task is scheduled
\* and website.crawl() comes to an end.
SpecFairClosed ==
    /\ Init /\ [][Next]_vars
    /\ Fairness
    /\ SF_vars(retry_closed)
    /\ SF_vars(http_recv)
    /\ WF_vars(SpiderDone)

\* driver_process is an Option<std::process::Child>, which has no destructor
\* that ends the process: dropping the handle leaves the process as it is.
drop_child(child) == child

\* A panic inside browser_discover_and_fetch (crawl.rs 179-193) unwinds
\* run_crawler: the JoinSet aborts its tasks, the AbortTaskOnDrop guard aborts
\* the control task, the sender and driver_process are dropped.
rc_unwind ==
    /\ pc \in {"br_loop", "br_wait", "br_links", "br_try_join", "br_final"}
    /\ pc' = "panicked"
    /\ fetch_set' = abort_all(fetch_set)
    /\ control_task' = drop_guard(control_task)
    /\ driver_process' = drop_child(driver_process)
    /\ UNCHANGED <<fetch_concurrency, shutdown_requested, control_rx, control_tx,
                   retry_rx, ui_script, poolVars, evVars, envVars, call, tui, psu, appVars, uiVars,
                   enable_webdriver, spiderVars, httpVars, session, discovered, visited,
                   bqueue, canceled, br_cur, br_ret>>

NextUnwind == Next \/ rc_unwind

\* The runs of run_crawler in which the browser discovery may panic.
SpecUnwind == Init /\ [][NextUnwind]_vars

(***************************************************************************)
(* The consumer's store: AppState::push_row and handle_crawl_event         *)
(* (types.rs 414-500, runtime.rs 5-38).  A text is a sequence of           *)
(* characters; a HashMap is a function on its keys.                        *)
(***************************************************************************)
MaxEvents == 3

RECURSIVE trim_start(_)
trim_start(s) == IF s # <<>> /\ Head(s) = " " THEN trim_start(Tail(s)) ELSE s

RECURSIVE trim_end(_)
trim_end(s) ==
    IF s # <<>> /\ s[Len(s)] = " " THEN trim_end(SubSeq(s, 1, Len(s) - 1)) ELSE s

trim(s) == trim_end(trim_start(s))

to_ascii_lowercase(s) ==
    [i \in 1..Len(s) |-> CASE s[i] = "A" -> "a"
                           [] s[i] = "E" -> "e"
                           [] s[i] = "H" -> "h"
                           [] s[i] = "U" -> "u"
                           [] OTHER -> s[i]]

\* map.get(key).unwrap_or(zero)
get_or(map, key, zero) == IF key \in DOMAIN map THEN map[key] ELSE zero

\* `*map.entry(key).or_insert(0) += 1` for every key of keys
count_keys(map, keys) ==
    [k \in DOMAIN map \cup keys |->
        get_or(map, k, 0) + (IF k \in keys THEN 1 ELSE 0)]

\* The length the display queue `rows` is cut back to.
MaxDisplayRows == 500

\* A deque that is never cut back.
push_front_uncapped(deque, x, cap) == <<x>> \o deque

\* deque.push_front(x); while deque.len() > cap { deque.pop_back(); }
push_front_capped(deque, x, cap) ==
    LET pushed == <<x>> \o deque
    IN  IF Len(pushed) > cap THEN SubSeq(pushed, 1, cap) ELSE pushed

\* A CrawlRow: the fields push_row reads.
Row(url, status, retrieval_status, title, meta, issues) ==
    [url |-> url, status |-> status, retrieval_status |-> retrieval_status,
     title |-> title, meta |-> meta, issues |-> issues]

unretrieved_row(url, reason) ==
    Row(url, 0, "not_retrieved", <<>>, reason, {"NotRetrieved"})

\* HashSet::insert reports a value that was already present.
insert_always_new(seen, value) == TRUE

\* HashSet::insert returns whether the value was newly inserted.
insert_is_new(seen, value) == value \notin seen

push_row(st, row, discovered_links) ==
    LET dedup_outgoing == DedupKeepFirst(discovered_links)
        sources  == Range(discovered_links) \ {row.url}
        inserted == insert_is_new(st.seen, row.url)
        linked   ==
            [st EXCEPT
                !.incoming_links =
                    [k \in DOMAIN @ \cup sources |->
                        get_or(@, k, {}) \cup (IF k \in sources THEN {row.url} ELSE {})],
                !.discovered_seen = @ \cup Range(discovered_links),
                !.seen = @ \cup {row.url}]
    IN  [inserted |-> inserted,
         state |->
            IF ~inserted THEN linked
            ELSE [linked EXCEPT
                    !.outgoing_links =
                        [k \in DOMAIN @ \cup {row.url} |->
                            IF k = row.url THEN dedup_outgoing ELSE @[k]],
                    !.status_counts = count_keys(@, {row.status}),
                    !.issue_counts = count_keys(@, row.issues),
                    !.title_counts =
                        IF row.title # <<>>
                        THEN count_keys(@, {to_ascii_lowercase(trim(row.title))})
                        ELSE @,
                    !.meta_counts =
                        IF row.meta # <<>> /\ row.retrieval_status = "retrieved"
                        THEN count_keys(@, {to_ascii_lowercase(trim(row.meta))})
                        ELSE @,
                    !.parsed = @ + 1,
                    !.all_rows = Append(@, row),
                    !.rows = push_front_capped(@, row, MaxDisplayRows)]]

push_error(st, error) == [st EXCEPT !.errors = push_front_capped(@, error, 10)]

push_status(st, message) ==
    [st EXCEPT !.status_messages = push_front_capped(@, message, 20)]

\* AppState::retry_failed_urls: the URLs of the FailedOnly retry scope.
retry_failed_urls(st) ==
    SortedSeq({st.all_rows[i].url : i \in
        {j \in 1..Len(st.all_rows) :
            \/ st.all_rows[j].retrieval_status # "retrieved"
            \/ st.all_rows[j].status \in 500..599}})

\* OutputSink::write_row appends one record; an I/O error ends the consumer.
write_row(out, row, discovered_links) ==
    [out EXCEPT !.rows = Append(@, [row |-> row, links |-> discovered_links])]

\* `if state.push_row(..) { sink.write_row(..)? }`
push_and_write(row, discovered_links) ==
    LET pushed == push_row(state, row, discovered_links)
    IN  /\ state' = pushed.state
        /\ IF pushed.inserted
           THEN \/ sink' = write_row(sink, row, discovered_links)
                \/ sink' = [sink EXCEPT !.failed = TRUE]
           ELSE sink' = sink
        /\ done' = done

handle_crawl_event ==
    /\ rx_pos < Len(tx)
    /\ ~sink.failed
    /\ LET event == tx[rx_pos + 1]
       IN  CASE event.kind = "Page" ->
                    push_and_write(event.row, event.discovered_links)
             [] event.kind = "Unretrieved" ->
                    push_and_write(unretrieved_row(event.url, event.reason), <<>>)
             [] event.kind = "Stats" ->
                    /\ state' = [state EXCEPT
                                    !.discovered_targets = Max(@, event.discovered)]
                    /\ UNCHANGED <<sink, done>>
             [] event.kind = "Finished" ->
                    /\ done' = TRUE
                    /\ UNCHANGED <<state, sink>>
             [] event.kind = "Status" ->
                    /\ state' = push_status(state, event.message)
                    /\ UNCHANGED <<sink, done>>
             [] event.kind = "Error" ->
                    /\ state' = push_error(state, event.message)
                    /\ UNCHANGED <<sink, done>>
    /\ rx_pos' = rx_pos + 1
    /\ UNCHANGED <<ctlVars, pc, poolVars, evVars, envVars, call, tui, psu, crawlVars, browserVars>>

\* The rows a crawl reports for a URL: a page with a title and a description,
\* the same page with other spelling, and a server error without either.
PageRows(url) ==
    {Row(url, 200, "retrieved", <<"A">>, <<"a", " ">>, {}),
     Row(url, 200, "retrieved", <<" ", "a">>, <<"A">>, {"MissingH1"}),
     Row(url, 503, "retrieved", <<>>, <<>>, {"Http5xx", "MissingTitle"})}

LinkLists == {<<>>, <<SmallSite, SmallSite>>}

CrawlEvents ==
    {[kind |-> "Page", row |-> row, discovered_links |-> links] :
        row \in UNION {PageRows(u) : u \in 1..SmallSite}, links \in LinkLists}
    \cup {[kind |-> "Unretrieved", url |-> u, reason |-> <<"a">>] : u \in 1..SmallSite}
    \cup {[kind |-> "Stats", discovered |-> SmallSite], [kind |-> "Finished"],
          [kind |-> "Status", message |-> "retrying"],
          [kind |-> "Error", message |-> "fetch failed"]}

\* The crawler has sent its events; the consumer has handled none.
InitApp ==
    /\ cli = Options(FALSE, FALSE, 0, FALSE)
    /\ redirects = NoRedirects(SmallSite)
    /\ world = World("failed", FALSE, TRUE)
    /\ ui_script = <<>>
    /\ fetch_concurrency = sanitize_fetch_concurrency(cli.fetch_concurrency)
    /\ shutdown_requested = FALSE
    /\ control_rx = <<>>
    /\ control_tx = "open"
    /\ control_task = "running"
    /\ retry_rx = <<>>
    /\ pc = "retry_top"
    /\ fm_ret = "caller"
    /\ fm_input = [urls |-> <<>>, extra |-> 0]
    /\ IdleBackends
    /\ tx \in SeqsUpTo(CrawlEvents, MaxEvents)
    /\ done = FALSE
    /\ rx_pos = 0
    /\ state = DefaultState
    /\ sink = NewSink
    /\ psu = NoCall
    /\ call = NoCall
    /\ tui = NoCall

NextApp == handle_crawl_event

SpecApp == InitApp /\ [][NextApp]_vars

(***************************************************************************)
(* The control channel after the primary crawl: the control task, the      *)
(* client and the retry loop (crawl.rs 101-116, 13-79), from the state     *)
(* run_crawler is in when an HTTP crawl of a site without redirects has    *)
(* sent its Finished and the consumer has handled it.                      *)
(***************************************************************************)
\* The commands the client sends once the primary crawl has finished.
ControlScripts ==
    {<<"SetFetchConcurrency", "SetFetchConcurrency", "RetryUrls">>,
     <<"RetryUrls", "RetryUrls", "SetFetchConcurrency">>,
     <<"RetryUrls", "SetFetchConcurrency", "RetryUrls">>,
     <<"RetryUrls", "SetFetchConcurrency", "Shutdown">>}

\* run_crawler at the entry of process_retry_commands (crawl.rs 393-403).
AfterHttpCrawl ==
    /\ cli = Options(FALSE, FALSE, 0, FALSE)
    /\ redirects = NoRedirects(SmallSite)
    /\ world = World("failed", FALSE, TRUE)
    /\ fetch_concurrency = sanitize_fetch_concurrency(cli.fetch_concurrency)
    /\ shutdown_requested = FALSE
    /\ control_rx = <<>>
    /\ control_tx = "open"
    /\ control_task = "running"
    /\ retry_rx = <<>>
    /\ pc = "retry_top"
    /\ fm_ret = "caller"
    /\ fm_input = [urls |-> <<>>, extra |-> 0]
    /\ queue = <<>> /\ queue_extra = 0
    /\ set = {} /\ set_extra = 0
    /\ conc_loaded = 0
    /\ spawned = [u \in AllUrls |-> 0] /\ spawned_extra = 0
    /\ batch = 2
    /\ tx = [i \in 1..SmallSite |-> PageEv(i, i, 2)]
                \o <<NoteEv("Stats", 2), NoteEv("Finished", 2)>>
    /\ tx_extra = 0
    /\ done = TRUE
    /\ rx_pos = Len(tx)
    /\ state = DefaultState
    /\ sink = NewSink
    /\ enable_webdriver = FALSE
    /\ driver_process = "none"
    /\ crawl_task = "finished"
    /\ subscription = <<>>
    /\ sub_skipped = 0
    /\ spider_visited = 1..SmallSite
    /\ spider_links = (2..SmallSite) \cup {ForeignUrl}
    /\ seen_urls = 1..SmallSite
    /\ discovered_from_pages = 2..SmallSite
    /\ retryable_5xx_urls = {}
    /\ session = "none"
    /\ discovered = {}
    /\ visited = {}
    /\ bqueue = <<>>
    /\ fetch_set = [u \in AllUrls |-> 0]
    /\ canceled = FALSE
    /\ br_cur = NoEntry
    /\ br_ret = "none"
    /\ psu = NoCall
    /\ call = NoCall
    /\ tui = NoCall

InitControl ==
    /\ ui_script \in ControlScripts
    /\ AfterHttpCrawl

NextControl ==
    \/ ControlTask
    \/ Client
    \/ HandleEvent
    \/ retry_top
    \/ retry_select
    \/ retry_after
    \/ PoolStep

SpecControl == InitControl /\ [][NextControl]_vars

(***************************************************************************)
(* One call of process_single_url, step by step (crawl.rs 2363-2437): the  *)
(* redirect probe, the retry rounds and the terminal event.                *)
(***************************************************************************)
MaxRetries == 3

MaxRequeues == 1

\* Length of a redirect chain longer than the probe's max_hops.
LongChainLen == 9

LongChain == [u \in 1..LongChainLen |-> u + 1]

\* The redirect graphs of the probed sites: every graph on Urls (with cycles,
\* self-redirects and redirects to another host), and the long chain.
ProbeGraphs == [Urls -> 0..ForeignUrl] \cup {LongChain}

\* The inner loop's `if last_status < 500 { break; }`, lost (a mutant).
attempt_break_never(last_status) == FALSE

\* `if last_status < 500 { break; }`
attempt_break(last_status) == last_status < 500

\* `if last_status < 500 || queue_round == retry_5xx { break; }`
round_break(last_status, queue_round, retry_5xx) ==
    last_status < 500 \/ queue_round = retry_5xx

\* `row.status >= 500` alone (a mutant of the terminal test).
is_unretrieved_any_body(row) == row.status >= 500

\* `if row.size == 0 && row.status >= 500`
is_unretrieved(row) == row.size = 0 /\ row.status >= 500

\* format!("http {} after {} retries and {} requeues", ..)
retry_reason(status, retries, retry_5xx) ==
    <<"http", status, "after", retries, "retries and", retry_5xx, "requeues">>

\* The locals at the entry of process_single_url(url, retries, retry_5xx, ..).
Call(url, retries, retry_5xx) ==
    [pc |-> "probe", url |-> url, retries |-> retries, retry_5xx |-> retry_5xx,
     redirect_rows |-> <<>>, fetch_url |-> url, queue_round |-> 0, attempt |-> 0,
     last_status |-> 0, last_size |-> 0, last_page |-> FALSE,
     requests |-> <<>>, out |-> <<>>]

\* Lines 2374-2386: the probe, the hop events, `retries.max(1)`.
psu_probe ==
    /\ psu.pc = "probe"
    /\ LET probe == raw_redirect_rows(redirects, psu.url, 8)
       IN  psu' = [psu EXCEPT
                    !.pc = "attempt",
                    !.redirect_rows = probe.rows,
                    !.fetch_url = probe.final,
                    !.out = [i \in 1..Len(probe.rows) |->
                                HopEv(probe.rows[i][1], psu.url, 0)],
                    !.retries = Max(@, 1)]
    /\ UNCHANGED <<ctlVars, pc, poolVars, evVars, envVars, call, tui, uiVars, appVars, crawlVars,
                   browserVars>>

\* Lines 2391-2401: one iteration of `for attempt in 0..retries`: a fetch of
\* fetch_url; `requests` is the site's log of the fetches.
psu_attempt ==
    /\ psu.pc = "attempt"
    /\ psu.attempt < psu.retries
    /\ \E resp \in Responses :
          psu' = [psu EXCEPT
                    !.last_status = resp.status,
                    !.last_size = resp.size,
                    !.last_page = TRUE,
                    !.requests = Append(@, resp.status),
                    !.attempt = @ + 1,
                    !.pc = IF attempt_break(resp.status) \/ psu.attempt + 1 >= psu.retries
                             THEN "round_end" ELSE "attempt"]
    /\ UNCHANGED <<ctlVars, pc, poolVars, evVars, envVars, call, tui, uiVars, appVars, crawlVars,
                   browserVars>>

\* Lines 2403-2408: the end of one round of `for queue_round in 0..=retry_5xx`.
psu_round_end ==
    /\ psu.pc = "round_end"
    /\ psu' = IF round_break(psu.last_status, psu.queue_round, psu.retry_5xx)
                THEN [psu EXCEPT !.pc = "result"]
                ELSE [psu EXCEPT !.pc = "attempt", !.queue_round = @ + 1,
                                 !.attempt = 0]
    /\ UNCHANGED <<ctlVars, pc, poolVars, evVars, envVars, call, tui, uiVars, appVars, crawlVars,
                   browserVars>>

\* Lines 2410-2436: the terminal event.
psu_result ==
    /\ psu.pc = "result"
    /\ LET row == [url |-> psu.fetch_url, status |-> psu.last_status,
                   size |-> psu.last_size]
           terminal ==
               IF ~psu.last_page
                 THEN [kind |-> "Unretrieved", url |-> psu.url, hop |-> FALSE,
                       reason |-> <<"fallback fetch could not start">>]
               ELSE IF is_unretrieved(row)
                 THEN [kind |-> "Unretrieved", url |-> row.url, hop |-> FALSE,
                       reason |-> retry_reason(row.status, psu.retries, psu.retry_5xx)]
               ELSE [kind |-> "Page", url |-> row.url, hop |-> FALSE,
                     status |-> row.status]
       IN  psu' = [psu EXCEPT !.pc = "returned", !.out = Append(@, terminal)]
    /\ UNCHANGED <<ctlVars, pc, poolVars, evVars, envVars, call, tui, uiVars, appVars, crawlVars,
                   browserVars>>

\* A fetch task of the pool calls process_single_url for one URL of a site.
InitFetch ==
    /\ cli = Options(FALSE, FALSE, 0, FALSE)
    /\ redirects \in ProbeGraphs
    /\ world = World("failed", FALSE, TRUE)
    /\ ui_script = <<>>
    /\ fetch_concurrency = sanitize_fetch_concurrency(cli.fetch_concurrency)
    /\ shutdown_requested = FALSE
    /\ control_rx = <<>>
    /\ control_tx = "open"
    /\ control_task = "running"
    /\ retry_rx = <<>>
    /\ pc = "fm_join"
    /\ fm_ret = "caller"
    /\ fm_input = [urls |-> <<>>, extra |-> 0]
    /\ IdleBackends
    /\ tx = <<>>
    /\ done = FALSE
    /\ rx_pos = 0
    /\ state = DefaultState
    /\ sink = NewSink
    /\ \E url \in Urls, retries \in 0..MaxRetries, retry_5xx \in 0..MaxRequeues :
          psu = Call(url, retries, retry_5xx)
    /\ call = NoCall
    /\ tui = NoCall

NextFetch == psu_probe \/ psu_attempt \/ psu_round_end \/ psu_result

SpecFetch == InitFetch /\ [][NextFetch]_vars

(***************************************************************************)
(* JsonSink (data_io.rs 218-267) and its owner.  The file is the sequence  *)
(* of the byte strings written to it; `written` is the history of the rows *)
(* passed to write_row.                                                    *)
(***************************************************************************)
\* Most rows the owner writes.
MaxWrites == 3

\* serde_json's text of the export records of the rows.
JsonRecords == {"{a}", "{b}", "{c}"}

\* JsonSink::new
json_new == [file |-> <<"[\n">>, first |-> TRUE, closed |-> FALSE, written |-> <<>>]

\* (a mutant of write_row: the separator is written before every record)
json_write_row_always_separated(s, rec) ==
    [s EXCEPT !.file = @ \o <<",\n", rec>>, !.first = FALSE,
              !.written = Append(@, rec)]

\* JsonSink::write_row
json_write_row(s, rec) ==
    [s EXCEPT !.file = (IF ~s.first THEN @ \o <<",\n">> ELSE @) \o <<rec>>,
              !.first = FALSE,
              !.written = Append(@, rec)]

\* (a mutant of finalize: it does not test `closed`)
json_finalize_unguarded(s) ==
    [s EXCEPT !.file = @ \o (IF s.first THEN <<"]\n">> ELSE <<"\n]\n">>),
              !.closed = TRUE]

\* JsonSink::finalize
json_finalize(s) ==
    IF ~s.closed
      THEN [s EXCEPT !.file = @ \o (IF s.first THEN <<"]\n">> ELSE <<"\n]\n">>),
                     !.closed = TRUE]
    ELSE s

\* handle_crawl_event writes a row to the sink (runtime.rs 10-13).
js_write_row ==
    /\ pc = "js_open"
    /\ Len(sink.written) < MaxWrites
    /\ \E rec \in JsonRecords : sink' = json_write_row(sink, rec)
    /\ UNCHANGED <<ctlVars, pc, poolVars, evVars, envVars, call, tui, uiVars, state, psu,
                   crawlVars, browserVars>>

\* The owner calls finalize (runtime.rs 124, tui.rs 1524-1526).
js_finalize ==
    /\ pc \in {"js_open", "js_finalized"}
    /\ sink' = json_finalize(sink)
    /\ pc' = "js_finalized"
    /\ UNCHANGED <<ctlVars, poolVars, evVars, envVars, call, tui, uiVars, state, psu, crawlVars,
                   browserVars>>

\* The owner returns, after finalize or early with an error: Drop for JsonSink.
js_drop ==
    /\ pc \in {"js_open", "js_finalized"}
    /\ sink' = json_finalize(sink)
    /\ pc' = "js_dropped"
    /\ UNCHANGED <<ctlVars, poolVars, evVars, envVars, call, tui, uiVars, state, psu, crawlVars,
                   browserVars>>

InitSink ==
    /\ cli = Options(FALSE, FALSE, 0, FALSE)
    /\ redirects = NoRedirects(SmallSite)
    /\ world = World("failed", FALSE, TRUE)
    /\ ui_script = <<>>
    /\ fetch_concurrency = sanitize_fetch_concurrency(cli.fetch_concurrency)
    /\ shutdown_requested = FALSE
    /\ control_rx = <<>>
    /\ control_tx = "open"
    /\ control_task = "running"
    /\ retry_rx = <<>>
    /\ pc = "js_open"
    /\ fm_ret = "caller"
    /\ fm_input = [urls |-> <<>>, extra |-> 0]
    /\ IdleBackends
    /\ tx = <<>>
    /\ done = FALSE
    /\ rx_pos = 0
    /\ state = DefaultState
    /\ psu = NoCall
    /\ call = NoCall
    /\ tui = NoCall
    /\ sink = json_new

NextSink == js_write_row \/ js_finalize \/ js_drop

SpecSink == InitSink /\ [][NextSink]_vars

(***************************************************************************)
(* The analyzer: the rows built by page_to_row, apply_rendered_html_to_row,*)
(* raw_redirect_rows and unretrieved_row (crawl.rs 2493-2524, 2555-2785,   *)
(* 3024-3103; types.rs 144-205).  A document is given by the values the    *)
(* extractors read from it.                                                *)
(***************************************************************************)
\* enum SeoIssue, in declaration order.
SeoIssues ==
    <<"NotRetrieved", "Http4xx", "Http5xx", "Noindex", "MissingTitle",
      "TitleTooShort", "TitleTooLong", "MissingMetaDescription",
      "MetaDescriptionTooShort", "MetaDescriptionTooLong", "MissingH1",
      "MultipleH1", "MissingCanonical", "LowWordCount", "ImagesMissingAlt",
      "TooManyExternalLinks">>

\* SeoIssue::penalty
penalty(issue) ==
    CASE issue = "NotRetrieved" -> 70
      [] issue = "Http5xx" -> 65
      [] issue = "Http4xx" -> 40
      [] issue = "Noindex" -> 20
      [] issue = "MissingTitle" -> 25
      [] issue = "TitleTooShort" -> 10
      [] issue = "TitleTooLong" -> 8
      [] issue = "MissingMetaDescription" -> 20
      [] issue = "MetaDescriptionTooShort" -> 8
      [] issue = "MetaDescriptionTooLong" -> 8
      [] issue = "MissingH1" -> 14
      [] issue = "MultipleH1" -> 8
      [] issue = "MissingCanonical" -> 10
      [] issue = "LowWordCount" -> 10
      [] issue = "ImagesMissingAlt" -> 8
      [] issue = "TooManyExternalLinks" -> 6

RECURSIVE penalty_sum_u8(_)
\* (a mutant of the sum: the penalties are added as u8)
penalty_sum_u8(issues) ==
    IF issues = <<>> THEN 0
    ELSE (penalty(Head(issues)) + penalty_sum_u8(Tail(issues))) % 256

RECURSIVE penalty_sum(_)
\* issues.iter().map(|issue| issue.penalty() as u16).sum::<u16>()
penalty_sum(issues) ==
    IF issues = <<>> THEN 0
    ELSE (penalty(Head(issues)) + penalty_sum(Tail(issues))) % 65536

\* compute_seo_score: (100u16.saturating_sub(penalty)) as u8
compute_seo_score(issues) == Max(100 - penalty_sum(issues), 0) % 256

\* collect_row_issues; `canonical` is the canonical URL as a sequence of
\* characters.
collect_row_issues(status, retrieval_status, is_html, noindex, title_length, meta_length, h1_count, canonical, word_count, image_missing_alt_count, external_link_count) ==
    IF retrieval_status # "retrieved" THEN <<"NotRetrieved">>
    ELSE LET http == (IF status \in 400..499 THEN <<"Http4xx">> ELSE <<>>)
                        \o (IF status \in 500..599 THEN <<"Http5xx">> ELSE <<>>)
         IN  IF ~is_html \/ status \notin 200..299 THEN http
             ELSE http
                    \o (IF noindex THEN <<"Noindex">> ELSE <<>>)
                    \o (IF title_length = 0 THEN <<"MissingTitle">>
                        ELSE IF title_length < 15 THEN <<"TitleTooShort">>
                        ELSE IF title_length > 60 THEN <<"TitleTooLong">>
                        ELSE <<>>)
                    \o (IF meta_length = 0 THEN <<"MissingMetaDescription">>
                        ELSE IF meta_length < 70 THEN <<"MetaDescriptionTooShort">>
                        ELSE IF meta_length > 160 THEN <<"MetaDescriptionTooLong">>
                        ELSE <<>>)
                    \o (IF h1_count = 0 THEN <<"MissingH1">>
                        ELSE IF h1_count > 1 THEN <<"MultipleH1">>
                        ELSE <<>>)
                    \o (IF trim(canonical) = <<>> THEN <<"MissingCanonical">> ELSE <<>>)
                    \o (IF word_count < 120 THEN <<"LowWordCount">> ELSE <<>>)
                    \o (IF image_missing_alt_count > 0 THEN <<"ImagesMissingAlt">>
                        ELSE <<>>)
                    \o (IF external_link_count > 60 THEN <<"TooManyExternalLinks">>
                        ELSE <<>>)

\* has_noindex: a robots meta element of the document, or the X-Robots-Tag
\* header of the response.
has_noindex(doc, page) == doc.noindex_meta \/ page.x_robots_noindex

\* The indexability text of page_to_row and apply_rendered_html_to_row.
indexability(status, noindex) ==
    IF status \in 200..299 /\ ~noindex THEN "Indexable" ELSE "Non-Indexable"

\* The documents: what the extractors find in the HTML.
Docs ==
    [noindex_meta : BOOLEAN, title_length : {0, 14, 30, 61},
     meta_length : {0, 69, 100, 161}, h1_count : {0, 1, 2},
     canonical : {<<>>, <<"c">>}, word_count : {119, 120},
     image_missing_alt_count : {0, 1}, external_link_count : {60, 61}]

\* The documents a browser renders.
RenderedDocs ==
    {[noindex_meta |-> FALSE, title_length |-> 0, meta_length |-> 100,
      h1_count |-> 1, canonical |-> <<"c">>, word_count |-> 120,
      image_missing_alt_count |-> 0, external_link_count |-> 0],
     [noindex_meta |-> TRUE, title_length |-> 61, meta_length |-> 0,
      h1_count |-> 2, canonical |-> <<" ">>, word_count |-> 119,
      image_missing_alt_count |-> 1, external_link_count |-> 61],
     [noindex_meta |-> FALSE, title_length |-> 14, meta_length |-> 161,
      h1_count |-> 0, canonical |-> <<>>, word_count |-> 120,
      image_missing_alt_count |-> 0, external_link_count |-> 60]}

\* The responses: status, whether the content type is HTML, whether an
\* X-Robots-Tag header says noindex, and the document.
Pages ==
    [status : {200, 301, 404, 503}, is_html : BOOLEAN, x_robots_noindex : BOOLEAN,
     doc : Docs]

\* page_to_row: the fields of the row that the issues, the score and the
\* indexability are computed from.
page_to_row(page) ==
    LET doc == page.doc
        noindex == has_noindex(doc, page)
        h1_count == IF page.is_html THEN doc.h1_count ELSE 0
        word_count == IF page.is_html THEN doc.word_count ELSE 0
        image_missing_alt_count ==
            IF page.is_html THEN doc.image_missing_alt_count ELSE 0
        external_link_count == IF page.is_html THEN doc.external_link_count ELSE 0
        issues == collect_row_issues(page.status, "retrieved", page.is_html, noindex,
                                     doc.title_length, doc.meta_length, h1_count,
                                     doc.canonical, word_count,
                                     image_missing_alt_count, external_link_count)
    IN  [status |-> page.status, retrieval_status |-> "retrieved",
         indexability |-> indexability(page.status, noindex),
         title_length |-> doc.title_length, meta_length |-> doc.meta_length,
         h1_count |-> h1_count, canonical |-> doc.canonical,
         word_count |-> word_count,
         image_missing_alt_count |-> image_missing_alt_count,
         external_link_count |-> external_link_count,
         seo_score |-> compute_seo_score(issues), issues |-> issues]

\* apply_rendered_html_to_row
apply_rendered_html_to_row(row, doc) ==
    LET noindex == doc.noindex_meta
        title_length == IF doc.title_length # 0 THEN doc.title_length
                        ELSE row.title_length
        issues == collect_row_issues(row.status, row.retrieval_status, TRUE, noindex,
                                     title_length, doc.meta_length, doc.h1_count,
                                     doc.canonical, doc.word_count,
                                     doc.image_missing_alt_count,
                                     doc.external_link_count)
    IN  [row EXCEPT !.title_length = title_length,
                    !.meta_length = doc.meta_length,
                    !.h1_count = doc.h1_count,
                    !.canonical = doc.canonical,
                    !.word_count = doc.word_count,
                    !.image_missing_alt_count = doc.image_missing_alt_count,
                    !.external_link_count = doc.external_link_count,
                    !.indexability = indexability(row.status, noindex),
                    !.issues = issues,
                    !.seo_score = compute_seo_score(issues)]

\* The row raw_redirect_rows builds for a hop (crawl.rs 2493-2522).
redirect_row(status) ==
    [status |-> status, retrieval_status |-> "retrieved",
     indexability |-> "Non-Indexable", title_length |-> 0, meta_length |-> 0,
     h1_count |-> 0, canonical |-> <<>>, word_count |-> 0,
     image_missing_alt_count |-> 0, external_link_count |-> 0,
     seo_score |-> 100, issues |-> <<>>]

\* unretrieved_row of the crawler (crawl.rs 2752-2785).
unretrieved_crawl_row(reason_len) ==
    LET issues == <<"NotRetrieved">>
    IN  [status |-> 0, retrieval_status |-> "not_retrieved",
         indexability |-> "Not Retrieved", title_length |-> 0,
         meta_length |-> reason_len,
         h1_count |-> 0, canonical |-> <<>>, word_count |-> 0,
         image_missing_alt_count |-> 0, external_link_count |-> 0,
         seo_score |-> compute_seo_score(issues), issues |-> issues]

\* A builder is called with its input.
row_build ==
    /\ call.pc \in {"page_to_row", "raw_redirect_rows", "unretrieved_row",
                    "compute_seo_score"}
    /\ call' = CASE call.pc = "page_to_row" ->
                      [pc |-> "row", page |-> call.page, row |-> page_to_row(call.page)]
                 [] call.pc = "raw_redirect_rows" ->
                      [pc |-> "hop_row", row |-> redirect_row(call.status)]
                 [] call.pc = "unretrieved_row" ->
                      [pc |-> "unretrieved", row |-> unretrieved_crawl_row(call.reason_len)]
                 [] call.pc = "compute_seo_score" ->
                      [pc |-> "scored", issues |-> call.issues,
                       seo_score |-> compute_seo_score(call.issues)]
    /\ UNCHANGED <<ctlVars, pc, poolVars, evVars, envVars, uiVars, appVars, psu, tui,
                   crawlVars, browserVars>>

\* browser_discover_and_fetch overlays the row of the rendered URL with the
\* rendered HTML (crawl.rs 1090-1103).
row_render ==
    /\ call.pc = "row"
    /\ \E doc \in RenderedDocs :
          call' = [pc |-> "rendered", page |-> call.page, doc |-> doc,
                   row |-> apply_rendered_html_to_row(call.row, doc)]
    /\ UNCHANGED <<ctlVars, pc, poolVars, evVars, envVars, uiVars, appVars, psu, tui,
                   crawlVars, browserVars>>

InitRow ==
    /\ cli = Options(FALSE, FALSE, 0, FALSE)
    /\ redirects = NoRedirects(SmallSite)
    /\ world = World("failed", FALSE, TRUE)
    /\ ui_script = <<>>
    /\ fetch_concurrency = sanitize_fetch_concurrency(cli.fetch_concurrency)
    /\ shutdown_requested = FALSE
    /\ control_rx = <<>>
    /\ control_tx = "open"
    /\ control_task = "running"
    /\ retry_rx = <<>>
    /\ pc = "fm_join"
    /\ fm_ret = "caller"
    /\ fm_input = [urls |-> <<>>, extra |-> 0]
    /\ IdleBackends
    /\ tx = <<>>
    /\ done = FALSE
    /\ rx_pos = 0
    /\ state = DefaultState
    /\ sink = NewSink
    /\ psu = NoCall
    /\ tui = NoCall
    /\ call \in {[pc |-> "page_to_row", page |-> page] : page \in Pages}
          \cup {[pc |-> "raw_redirect_rows", status |-> status] :
                   status \in {301, 302, 307, 308}}
          \cup {[pc |-> "unretrieved_row", reason_len |-> n] : n \in {0, 40}}
          \cup {[pc |-> "compute_seo_score",
                 issues |-> SelectSeq(SeoIssues, LAMBDA issue : issue \in chosen)] :
                   chosen \in SUBSET Range(SeoIssues)}

NextRow == row_build \/ row_render

SpecRow == InitRow /\ [][NextRow]_vars

(***************************************************************************)
(* The URL normalizer (crawl.rs 2166-2252).  A URL text is given by its    *)
(* parts: surrounding whitespace, scheme, host, path, the parameters of    *)
(* its query and whether it has a fragment; scheme, host, keys and values  *)
(* are sequences of characters, "%75" and the like one escaped character.  *)
(***************************************************************************)
\* Most parameters of a query, and most links of a list.
MaxParams == 2

MaxLinks == 3

\* Option<T>
None == [some |-> FALSE]

Some(v) == [some |-> TRUE, v |-> v]

starts_with(s, prefix) ==
    Len(s) >= Len(prefix) /\ SubSeq(s, 1, Len(prefix)) = prefix

\* form_urlencoded::parse: "+" is a space, %XX the escaped character.
form_decode(s) ==
    [i \in 1..Len(s) |-> CASE s[i] = "+" -> " "
                           [] s[i] = "%75" -> "u"
                           [] s[i] = "%2B" -> "+"
                           [] OTHER -> s[i]]

\* form_urlencoded::Serializer: a space is "+", other special characters %XX.
form_encode(s) ==
    [i \in 1..Len(s) |-> CASE s[i] = " " -> "+"
                           [] s[i] = "+" -> "%2B"
                           [] OTHER -> s[i]]

\* (a mutant of is_tracking_query_param: the name is compared as written)
is_tracking_query_param_case_sensitive(param) ==
    \/ starts_with(param, <<"u", "t", "m", "_">>)
    \/ starts_with(param, <<"g", "a", "d", "_">>)
    \/ param \in {<<"g", "c", "l", "i", "d">>, <<"_", "g", "l">>}

\* is_tracking_query_param (of its exact names: gclid and _gl)
is_tracking_query_param(param) ==
    LET name == to_ascii_lowercase(param)
    IN  \/ starts_with(name, <<"u", "t", "m", "_">>)
        \/ starts_with(name, <<"g", "a", "d", "_">>)
        \/ name \in {<<"g", "c", "l", "i", "d">>, <<"_", "g", "l">>}

\* Url::parse of an absolute URL text: scheme and host in lower case.
url_parse(text) ==
    [text EXCEPT !.lead = FALSE,
                 !.scheme = to_ascii_lowercase(@),
                 !.host = to_ascii_lowercase(@)]

\* normalize_crawl_url
normalize_crawl_url(raw) ==
    IF raw.kind # "absolute" THEN None
    ELSE LET url == url_parse(raw)
             pairs == [i \in 1..Len(url.query) |->
                          [key |-> form_decode(url.query[i].key),
                           value |-> form_decode(url.query[i].value)]]
             kept_params == SelectSeq(pairs,
                                      LAMBDA kv : ~is_tracking_query_param(kv.key))
         IN  IF url.scheme \notin {<<"h", "t", "t", "p">>, <<"h", "t", "t", "p", "s">>}
               THEN None
             ELSE Some([url EXCEPT
                           !.has_query = kept_params # <<>>,
                           !.query = [i \in 1..Len(kept_params) |->
                                         [key |-> form_encode(kept_params[i].key),
                                          value |-> form_encode(kept_params[i].value)]],
                           !.has_fragment = FALSE])

\* (a mutant of is_same_host: every candidate passes)
same_host_any(candidate, root_host) == TRUE

\* is_same_host on URL texts
same_host(candidate, root_host) ==
    IF ~root_host.some THEN TRUE
    ELSE candidate.kind = "absolute"
           /\ to_ascii_lowercase(url_parse(candidate).host)
                  = to_ascii_lowercase(root_host.v)

RECURSIVE filter_loop(_, _, _, _)
\* The loop of filter_crawlable_links over the links left.
filter_loop(links, root_host, seen, out) ==
    IF links = <<>> THEN out
    ELSE LET normalized == normalize_crawl_url(Head(links))
         IN  IF ~normalized.some
               THEN filter_loop(Tail(links), root_host, seen, out)
             ELSE IF ~same_host(normalized.v, root_host)
               THEN filter_loop(Tail(links), root_host, seen, out)
             ELSE IF insert_is_new(seen, normalized.v)
               THEN filter_loop(Tail(links), root_host, seen \cup {normalized.v},
                                Append(out, normalized.v))
             ELSE filter_loop(Tail(links), root_host, seen, out)

\* filter_crawlable_links on URL texts
filter_links(links, root_host) == filter_loop(links, root_host, {}, <<>>)

\* The texts of query parameters.
ParamKeys ==
    {<<"a">>, <<"u", "t", "m">>, <<"u", "t", "m", "_", "x">>,
     <<"U", "t", "m", "_", "x">>, <<"%75", "t", "m", "_", "x">>,
     <<"g", "c", "l", "i", "d">>, <<"a", "+">>, <<"%2B">>}

Params == [key : ParamKeys, value : {<<"1">>}]

UrlText(lead, scheme, host, path, has_query, query, has_fragment) ==
    [kind |-> "absolute", lead |-> lead, scheme |-> scheme, host |-> host,
     path |-> path, has_query |-> has_query, query |-> query,
     has_fragment |-> has_fragment]

\* A text that is empty after trim, and one that Url::parse rejects.
BadTexts == {[kind |-> "empty"], [kind |-> "relative"]}

RawUrls ==
    {UrlText(lead, scheme, host, <<"/", "a">>, has_query, query, has_fragment) :
        lead \in BOOLEAN,
        scheme \in {<<"h", "t", "t", "p">>, <<"H", "t", "t", "p">>, <<"f", "t", "p">>},
        host \in {<<"e">>, <<"E">>, <<"o">>},
        has_query \in {TRUE},
        query \in SeqsUpTo(Params, MaxParams),
        has_fragment \in BOOLEAN}
      \cup {UrlText(FALSE, <<"h", "t", "t", "p">>, <<"e">>, path, FALSE, <<>>, f) :
               path \in {<<"/">>, <<"/", "a">>}, f \in BOOLEAN}
      \cup BadTexts

\* The links of a page.
PageLinks ==
    LET A(host, query, f) ==
            UrlText(FALSE, <<"h", "t", "t", "p">>, host, <<"/", "a">>, query # <<>>,
                    query, f)
        P(key) == [key |-> key, value |-> <<"1">>]
    IN  {A(<<"e">>, <<>>, FALSE), A(<<"e">>, <<>>, TRUE),
         A(<<"e">>, <<P(<<"u", "t", "m", "_", "x">>)>>, TRUE),
         A(<<"e">>, <<P(<<"a">>)>>, FALSE),
         A(<<"e">>, <<P(<<"U", "t", "m", "_", "x">>), P(<<"a">>)>>, FALSE),
         A(<<"E">>, <<P(<<"g", "c", "l", "i", "d">>)>>, FALSE),
         A(<<"o">>, <<>>, FALSE),
         UrlText(TRUE, <<"H", "t", "t", "p">>, <<"e">>, <<"/">>, FALSE, <<>>, FALSE),
         UrlText(FALSE, <<"f", "t", "p">>, <<"e">>, <<"/", "a">>, FALSE, <<>>, FALSE),
         [kind |-> "relative"]}

\* normalize_crawl_url is called on a text, and again on its result.
url_normalize ==
    /\ call.pc \in {"normalize_crawl_url", "normalized"}
    /\ call' = IF call.pc = "normalize_crawl_url"
                 THEN [pc |-> IF normalize_crawl_url(call.raw).some
                                THEN "normalized" ELSE "rejected",
                       raw |-> call.raw, out |-> normalize_crawl_url(call.raw)]
               ELSE [pc |-> "renormalized", raw |-> call.raw, out |-> call.out,
                     again |-> normalize_crawl_url(call.out.v)]
    /\ UNCHANGED <<ctlVars, pc, poolVars, evVars, envVars, uiVars, appVars, psu, tui,
                   crawlVars, browserVars>>

\* filter_crawlable_links is called on the links of a page.
url_filter ==
    /\ call.pc = "filter_crawlable_links"
    /\ call' = [pc |-> "filtered", links |-> call.links, root_host |-> call.root_host,
                out |-> filter_links(call.links, call.root_host)]
    /\ UNCHANGED <<ctlVars, pc, poolVars, evVars, envVars, uiVars, appVars, psu, tui,
                   crawlVars, browserVars>>

InitUrl ==
    /\ cli = Options(FALSE, FALSE, 0, FALSE)
    /\ redirects = NoRedirects(SmallSite)
    /\ world = World("failed", FALSE, TRUE)
    /\ ui_script = <<>>
    /\ fetch_concurrency = sanitize_fetch_concurrency(cli.fetch_concurrency)
    /\ shutdown_requested = FALSE
    /\ control_rx = <<>>
    /\ control_tx = "open"
    /\ control_task = "running"
    /\ retry_rx = <<>>
    /\ pc = "fm_join"
    /\ fm_ret = "caller"
    /\ fm_input = [urls |-> <<>>, extra |-> 0]
    /\ IdleBackends
    /\ tx = <<>>
    /\ done = FALSE
    /\ rx_pos = 0
    /\ state = DefaultState
    /\ sink = NewSink
    /\ psu = NoCall
    /\ tui = NoCall
    /\ call \in {[pc |-> "normalize_crawl_url", raw |-> raw] : raw \in RawUrls}
          \cup {[pc |-> "filter_crawlable_links", links |-> links,
                 root_host |-> root_host] :
                   links \in SeqsUpTo(PageLinks, MaxLinks),
                   root_host \in {None, Some(<<"e">>)}}

NextUrl == url_normalize \/ url_filter

SpecUrl == InitUrl /\ [][NextUrl]_vars

----------------------------------------------------------------------------
\* The redirect fields of the records: redirect_class (ui_utils.rs),
\* page_to_row and raw_redirect_rows (crawl.rs), on URL texts.

\* String::new()
EmptyText == [kind |-> "empty"]

\* (a mutant of redirect_class: 308 is taken for a temporary redirect)
redirect_class_308_temporary(status) ==
    CASE status \in {301} -> "Permanent"
      [] status \in {302, 303, 307, 308} -> "Temporary"
      [] status \in 300..399 -> "Redirect"
      [] OTHER -> ""

\* redirect_class
redirect_class(status) ==
    CASE status \in {301, 308} -> "Permanent"
      [] status \in {302, 303, 307} -> "Temporary"
      [] status \in 300..399 -> "Redirect"
      [] OTHER -> ""

\* normalize_crawl_url(&raw).unwrap_or_else(|| raw.clone())
normalized_or_raw(raw) ==
    IF normalize_crawl_url(raw).some THEN normalize_crawl_url(raw).v ELSE raw

\* page_to_row, lines 2568-2594: the URL and the redirect fields of the row of
\* a page with its requested and its final URL.
page_redirect_fields(status, requested_url_raw, final_url_raw) ==
    LET requested_url == normalized_or_raw(requested_url_raw)
        final_url == normalized_or_raw(final_url_raw)
        is_followed_redirect == requested_url # final_url
    IN  [status |-> status,
         url |-> IF status \in 300..399 THEN requested_url
                 ELSE IF is_followed_redirect THEN final_url
                 ELSE requested_url,
         redirect_url |-> IF status \in 300..399
                            THEN IF is_followed_redirect THEN final_url
                                 ELSE EmptyText
                          ELSE EmptyText,
         redirect_type |-> IF status \in 300..399 THEN redirect_class(status)
                           ELSE ""]

\* raw_redirect_rows, lines 2462-2510: the row of one probed hop, if the answer
\* is a redirect with a Location; location is the header resolved against the
\* probed URL, or None when the header is missing or empty.
redirect_hop_fields(status, current, location) ==
    IF status \notin 300..399 THEN None
    ELSE IF ~location.some THEN None
    ELSE Some([status |-> status,
               url |-> current,
               redirect_url |-> normalized_or_raw(location.v),
               redirect_type |-> redirect_class(status)])

\* unretrieved_row, lines 2756 and 2771-2772
unretrieved_redirect_fields(url) ==
    [status |-> 0, url |-> url, redirect_url |-> EmptyText, redirect_type |-> ""]

RedirectStatuses == {0, 200, 300, 301, 302, 303, 304, 307, 308, 399, 404, 503}

\* The URLs of the pages: one with a tracking parameter and a fragment, its
\* normal form, another page, and a URL that has no normal form.
RedirectTexts ==
    LET A(scheme, path, query, f) ==
            UrlText(FALSE, scheme, <<"e">>, path, query # <<>>, query, f)
        http == <<"h", "t", "t", "p">>
    IN  {A(http, <<"/", "a">>, <<>>, FALSE),
         A(http, <<"/", "a">>,
           <<[key |-> <<"u", "t", "m", "_", "x">>, value |-> <<"1">>]>>, TRUE),
         A(http, <<"/">>, <<>>, FALSE),
         A(<<"f", "t", "p">>, <<"/", "a">>, <<>>, FALSE)}

\* A builder of a record is called with its input.
redirect_build ==
    /\ call.pc \in {"page_redirect", "redirect_hop", "unretrieved_redirect"}
    /\ call' = CASE call.pc = "page_redirect" ->
                      [pc |-> "record", from |-> call,
                       row |-> Some(page_redirect_fields(call.status, call.requested,
                                                         call.final))]
                 [] call.pc = "redirect_hop" ->
                      [pc |-> "record", from |-> call,
                       row |-> redirect_hop_fields(call.status, call.current,
                                                   call.location)]
                 [] call.pc = "unretrieved_redirect" ->
                      [pc |-> "record", from |-> call,
                       row |-> Some(unretrieved_redirect_fields(call.url))]
    /\ UNCHANGED <<ctlVars, pc, poolVars, evVars, envVars, uiVars, appVars, psu, tui,
                   crawlVars, browserVars>>

InitRedirect ==
    /\ cli = Options(FALSE, FALSE, 0, FALSE)
    /\ redirects = NoRedirects(SmallSite)
    /\ world = World("failed", FALSE, TRUE)
    /\ ui_script = <<>>
    /\ fetch_concurrency = sanitize_fetch_concurrency(cli.fetch_concurrency)
    /\ shutdown_requested = FALSE
    /\ control_rx = <<>>
    /\ control_tx = "open"
    /\ control_task = "running"
    /\ retry_rx = <<>>
    /\ pc = "fm_join"
    /\ fm_ret = "caller"
    /\ fm_input = [urls |-> <<>>, extra |-> 0]
    /\ IdleBackends
    /\ tx = <<>>
    /\ done = FALSE
    /\ rx_pos = 0
    /\ state = DefaultState
    /\ sink = NewSink
    /\ psu = NoCall
    /\ tui = NoCall
    /\ call \in {[pc |-> "page_redirect", status |-> status, requested |-> requested,
                  final |-> final] :
                    status \in RedirectStatuses, requested \in RedirectTexts,
                    final \in RedirectTexts}
          \cup {[pc |-> "redirect_hop", status |-> status, current |-> current,
                 location |-> location] :
                    status \in RedirectStatuses, current \in RedirectTexts,
                    location \in {None} \cup {Some(t) : t \in RedirectTexts}}
          \cup {[pc |-> "unretrieved_redirect", url |-> url] : url \in RedirectTexts}

NextRedirect == redirect_build

SpecRedirect == InitRedirect /\ [][NextRedirect]_vars

----------------------------------------------------------------------------
\* draw_loop (tui.rs): the pause buffer between the event channel and
\* handle_crawl_event.  The channel carries runs of events: a run is n events
\* of one kind sent one after the other, so that a pause longer than the cap
\* of the buffer is a single step.  tx holds the runs sent, rx_pos the number
\* of runs received, done is state.done, and tui holds the locals of the
\* loop: paused, paused_events (the parts of runs still buffered), auto_close,
\* and handled, the number of events of each run that were passed to
\* handle_crawl_event (what such a call does to the store is the action
\* handle_crawl_event above).

\* paused_events.len() > 20_000
PAUSED_EVENTS_CAP == 20000

\* for _ in 0..300
DRAIN_PER_TICK == 300

MaxRuns == 3

RunSizes == {1, PAUSED_EVENTS_CAP}

Run(kind, n) == [kind |-> kind, n |-> n]

\* matches!(event, CrawlEvent::Page { .. } | CrawlEvent::Unretrieved { .. })
is_record_event(kind) == kind \in {"Page", "Unretrieved"}

RECURSIVE buffered_len(_)
\* paused_events.len()
buffered_len(buf) ==
    IF buf = <<>> THEN 0 ELSE Head(buf).n + buffered_len(Tail(buf))

RECURSIVE pop_front(_, _)
\* k times paused_events.pop_front(): the events taken, oldest first, and the
\* events left
pop_front(buf, k) ==
    IF k = 0 \/ buf = <<>>
    THEN [taken |-> <<>>, rest |-> buf]
    ELSE IF Head(buf).n <= k
         THEN LET more == pop_front(Tail(buf), k - Head(buf).n)
              IN  [taken |-> <<Head(buf)>> \o more.taken, rest |-> more.rest]
         ELSE [taken |-> <<[Head(buf) EXCEPT !.n = k]>>,
               rest |-> <<[Head(buf) EXCEPT !.n = @ - k]>> \o Tail(buf)]

\* push_back of every event of the run, each followed by
\* if paused_events.len() > 20_000 { paused_events.pop_front(); }
push_back(buf, part) ==
    LET all == Append(buf, part)
    IN  pop_front(all, Max(buffered_len(all) - PAUSED_EVENTS_CAP, 0)).rest

RECURSIVE handle_all(_, _)
\* handle_crawl_event for every event of the parts, in order
handle_all(handled, parts) ==
    IF parts = <<>> THEN handled
    ELSE handle_all([handled EXCEPT ![Head(parts).run] = @ + Head(parts).n],
                    Tail(parts))

RECURSIVE try_recv_loop(_, _, _)
\* while let Ok(event) = rx.try_recv() { .. } over the runs pos+1 .. Len(tx)
try_recv_loop(loc, dn, pos) ==
    IF pos >= Len(tx) THEN [tui |-> loc, done |-> dn]
    ELSE LET run  == tx[pos + 1]
             part == [run |-> pos + 1, kind |-> run.kind, n |-> run.n]
         IN  IF loc.paused /\ is_record_event(run.kind)
             THEN try_recv_loop(
                      [loc EXCEPT !.paused_events = push_back(@, part)],
                      dn, pos + 1)
             ELSE try_recv_loop(
                      [loc EXCEPT !.handled = handle_all(@, <<part>>)],
                      dn \/ run.kind = "Finished", pos + 1)

TuiUnchanged ==
    UNCHANGED <<ctlVars, pc, poolVars, tx_extra, envVars, appVars, crawlVars,
                browserVars, psu, call>>

\* The crawler sends a run of events, one long run at most; Finished is the
\* last event it sends.
\* The loop looks at the channel in try_recv only, so a send at any other
\* point of the loop is the same send before the next try_recv.
tui_crawl_send ==
    /\ tui.pc = "recv"
    /\ Len(tx) < MaxRuns
    /\ IF tx = <<>> THEN TRUE ELSE tx[Len(tx)].kind # "Finished"
    /\ \E run \in {Run(kind, n) : kind \in {"Page", "Unretrieved"}, n \in RunSizes}
                    \cup {Run("Stats", 1), Run("Finished", 1)} :
           /\ run.n > 1 => \A i \in DOMAIN tx : tx[i].n = 1
           /\ tx' = Append(tx, run)
    /\ UNCHANGED <<done, rx_pos, tui>>
    /\ TuiUnchanged

\* if !paused { for _ in 0..300 { .. handle_crawl_event(..)?; } }
tui_drain ==
    /\ tui.pc = "drain"
    /\ IF tui.paused
       THEN tui' = [tui EXCEPT !.pc = "recv"]
       ELSE LET popped == pop_front(tui.paused_events, DRAIN_PER_TICK)
            IN  \/ tui' = [tui EXCEPT !.pc = "recv",
                                      !.paused_events = popped.rest,
                                      !.handled = handle_all(@, popped.taken)]
                \/ /\ popped.taken # <<>>
                   /\ tui' = [tui EXCEPT !.pc = "returned_err",
                                         !.paused_events = popped.rest]
    /\ UNCHANGED <<tx, done, rx_pos>>
    /\ TuiUnchanged

\* while let Ok(event) = rx.try_recv() { .. }, then terminal.draw and
\* sink.flush()?
tui_recv ==
    /\ tui.pc = "recv"
    /\ LET got == try_recv_loop(tui, done, rx_pos)
       IN  /\ \/ tui' = [got.tui EXCEPT !.pc = "keys"]
              \/ tui' = [got.tui EXCEPT !.pc = "returned_err"]
           /\ done' = got.done
    /\ rx_pos' = Len(tx)
    /\ UNCHANGED tx
    /\ TuiUnchanged

\* event::poll, then the key: ' ' toggles paused, 'q' sends Shutdown and
\* leaves the loop
tui_key ==
    /\ tui.pc = "keys"
    /\ \E key \in {"none", " ", "q"} :
           CASE key = " " ->
                    /\ tui' = [tui EXCEPT !.pc = "exit_check", !.paused = ~@]
                    /\ UNCHANGED control_rx
             [] key = "q" ->
                    /\ tui' = [tui EXCEPT !.pc = "finalize"]
                    /\ control_rx' = IF control_tx = "open"
                                     THEN Append(control_rx, "Shutdown")
                                     ELSE control_rx
             [] OTHER ->
                    /\ tui' = [tui EXCEPT !.pc = "exit_check"]
                    /\ UNCHANGED control_rx
    /\ UNCHANGED <<tx, done, rx_pos>>
    /\ UNCHANGED <<fetch_concurrency, shutdown_requested, control_tx, control_task,
                   retry_rx, ui_script, pc, poolVars, tx_extra, envVars, appVars,
                   crawlVars, browserVars, psu, call>>

\* if state.done && auto_close { break; }
tui_exit_check ==
    /\ tui.pc = "exit_check"
    /\ tui' = [tui EXCEPT !.pc = IF done /\ tui.auto_close
                                 THEN "finalize" ELSE "drain"]
    /\ UNCHANGED <<tx, done, rx_pos>>
    /\ TuiUnchanged

\* if let Some(sink) = sink.as_mut() { sink.finalize()?; }  Ok(())
tui_return ==
    /\ tui.pc = "finalize"
    /\ \/ tui' = [tui EXCEPT !.pc = "returned_ok"]
       \/ tui' = [tui EXCEPT !.pc = "returned_err"]
    /\ UNCHANGED <<tx, done, rx_pos>>
    /\ TuiUnchanged

InitTui ==
    /\ cli = Options(FALSE, FALSE, 0, FALSE)
    /\ redirects = NoRedirects(SmallSite)
    /\ world = World("failed", FALSE, TRUE)
    /\ ui_script = <<>>
    /\ fetch_concurrency = sanitize_fetch_concurrency(cli.fetch_concurrency)
    /\ shutdown_requested = FALSE
    /\ control_rx = <<>>
    /\ control_tx = "open"
    /\ control_task = "running"
    /\ retry_rx = <<>>
    /\ pc = "fm_join"
    /\ fm_ret = "caller"
    /\ fm_input = [urls |-> <<>>, extra |-> 0]
    /\ IdleBackends
    /\ tx = <<>>
    /\ done = FALSE
    /\ rx_pos = 0
    /\ state = DefaultState
    /\ sink = NewSink
    /\ psu = NoCall
    /\ call = NoCall
    /\ tui \in {[pc |-> "drain", paused |-> FALSE, paused_events |-> <<>>,
                 handled |-> [run \in 1..MaxRuns |-> 0],
                 auto_close |-> auto_close] : auto_close \in BOOLEAN}

NextTui ==
    \/ tui_crawl_send
    \/ tui_drain
    \/ tui_recv
    \/ tui_key
    \/ tui_exit_check
    \/ tui_return

SpecTui == InitTui /\ [][NextTui]_vars

(***************************************************************************)
(* Claims about the fetch pool (SpecPool).                                 *)
(***************************************************************************)
\* C1: the concurrency value a spawn decision uses (the value the loop test
\* loaded, and the value any load of the cell would give) lies in 1..=256,
\* whatever the CLI value and the SetFetchConcurrency commands were.
C1_ConcurrencyInRange ==
    /\ current_fetch_concurrency(fetch_concurrency) \in 1..MAX_FETCH_CONCURRENCY
    /\ pc = "fm_body" => conc_loaded \in 1..MAX_FETCH_CONCURRENCY

\* The CLI asked for 0, a SetFetchConcurrency(1000) was processed, and the pool
\* is about to spawn with the clamped value.
C1_Witness ==
    /\ cli.fetch_concurrency = 0
    /\ pc = "fm_body"
    /\ conc_loaded = MAX_FETCH_CONCURRENCY

\* C2: the number of in-flight fetch tasks never exceeds 256, and whenever the
\* pool waits for a completion at least one task is in flight.
C2_InFlightBounded ==
    /\ SetLen <= MAX_FETCH_CONCURRENCY
    /\ pc = "fm_join" => SetLen >= 1

\* The pool waits with 256 tasks in flight and work left, after the cell was
\* raised from the CLI's 0 to 256 by a command.
C2_Witness ==
    /\ pc = "fm_join"
    /\ SetLen = MAX_FETCH_CONCURRENCY
    /\ queue_extra > 0
    /\ cli.fetch_concurrency = 0

\* The events of tx sent by backend invocation src for requested URL req that
\* are final (not hops).
FinalEvents(src, req) ==
    {i \in 1..Len(tx) : /\ tx[i].src = src
                        /\ tx[i].req = req
                        /\ tx[i].kind \in {"Page", "Unretrieved"}
                        /\ ~tx[i].hop}

IsFinal(e) == e.kind \in {"Page", "Unretrieved"} /\ ~e.hop

IsHop(e) == e.kind = "Page" /\ e.hop

\* C4: in the event stream of every backend invocation, no redirect-hop Page
\* event of a requested URL is emitted after the final Page or Unretrieved
\* event of that URL.
C4_HopsBeforeFinal ==
    \A i \in 1..Len(tx) : \A j \in 1..Len(tx) :
        (i < j /\ IsFinal(tx[i]) /\ IsHop(tx[j]))
            => ~(tx[i].src = tx[j].src /\ tx[i].req = tx[j].req)

\* The tasks spawned by run_crawler that are in flight: fetch tasks of the pool
\* and of the browser backend, and the crawl task.
TasksInFlight == SetLen + FetchLen + (IF crawl_task = "running" THEN 1 ELSE 0)

\* C5: once Shutdown has been processed, run_crawler eventually returns; and
\* whenever it has returned, none of the tasks it spawned is in flight.
C5_ShutdownTerminates ==
    /\ (shutdown_requested ~> pc = "returned")
    /\ [](pc = "returned" => TasksInFlight = 0)

\* Shutdown was processed while a browser crawl had fetch tasks in flight, and
\* run_crawler has returned.
C5_Witness ==
    /\ pc = "returned" /\ shutdown_requested
    /\ canceled /\ session = "deleted"
    /\ \E i \in 1..Len(tx) : IsFinal(tx[i])

\* A command of the retry channel that was sent after a Shutdown.
LateRetry == \E i \in 1..Len(retry_rx) : retry_rx[i].late

\* C6: once Shutdown has been processed, shutdown_requested stays true, the
\* concurrency cell keeps its value, the retry channel gets no further
\* command, and no command sent after the Shutdown ever reaches it.
C6_ShutdownPermanent ==
    [][/\ shutdown_requested =>
             /\ shutdown_requested'
             /\ fetch_concurrency' = fetch_concurrency
             /\ Len(retry_rx') <= Len(retry_rx)
       /\ ~LateRetry']_vars

\* Shutdown was processed, and a SetFetchConcurrency(1000) sent after it waits
\* in the control channel of a run that has returned.
C6_Witness ==
    /\ shutdown_requested /\ pc = "returned"
    /\ control_rx # <<>>
    /\ Head(control_rx).cmd = "SetFetchConcurrency" /\ Head(control_rx).value = 1000
    /\ Head(control_rx).late

\* C7: whenever the retry loop runs and the consumer's done flag is false (it
\* has not handled the last Finished yet, or it cleared the flag when it sent
\* a RetryUrls), done eventually becomes true again, unless a Shutdown is
\* processed or the client gives up the control channel.
C7_RetryAnswered ==
    (pc \in {"retry_top", "retry_select"} /\ ~done)
        ~> (done \/ shutdown_requested \/ control_tx = "closed")

\* C8: when run_crawler has returned, it has emitted a Finished event.
C8_FinishedBeforeReturn ==
    pc = "returned" => \E i \in 1..Len(tx) : tx[i].kind = "Finished"

\* Shutdown was observed during the HTTP discovery: the crawl task was aborted
\* and run_crawler returned.
C8_Witness ==
    /\ pc = "returned" /\ shutdown_requested
    /\ crawl_task = "aborted"
    /\ tx[Len(tx)].kind = "Finished"

(***************************************************************************)
(* Claims about the consumer's store (SpecApp).                            *)
(***************************************************************************)
\* The row of a Page or Unretrieved event.
EventRow(e) == IF e.kind = "Page" THEN e.row ELSE unretrieved_row(e.url, e.reason)

IsRowEvent(e) == e.kind \in {"Page", "Unretrieved"}

\* The records of the in-memory store for a URL.
StoreRecords(u) == {i \in 1..Len(state.all_rows) : state.all_rows[i].url = u}

\* C9: for any sequence of events handled with a sink, every URL in seen has
\* exactly one record in all_rows and, unless a write to the sink failed, at
\* least one row in the sink.
C9_SeenOnceStoredAndWritten ==
    \A u \in state.seen :
        /\ Cardinality(StoreRecords(u)) = 1
        /\ ~sink.failed => \E i \in 1..Len(sink.rows) : sink.rows[i].row.url = u

\* A Page and then an Unretrieved event of URL 1 and a Page of another URL
\* with links were handled, and every write succeeded.
C9_Witness ==
    /\ rx_pos = MaxEvents /\ ~sink.failed
    /\ tx[1].kind = "Page" /\ tx[1].row.url = 1
    /\ tx[2].kind = "Unretrieved" /\ tx[2].url = 1
    /\ tx[3].kind = "Page" /\ tx[3].row.url # 1 /\ tx[3].discovered_links # <<>>
    /\ Cardinality(state.seen) = 2
    /\ Len(sink.rows) = 2

\* The handled row events of a URL, and the last of them.
HandledRows(u) == {i \in 1..rx_pos : IsRowEvent(tx[i]) /\ EventRow(tx[i]).url = u}

LatestRow(u) ==
    EventRow(tx[CHOOSE i \in HandledRows(u) : \A j \in HandledRows(u) : j <= i])

\* A retry batch produced a new record for a URL that already had one: the
\* last handled record of the URL follows a Finished event and an earlier
\* record of the URL.
Retried(u) ==
    \E i, f, j \in 1..rx_pos :
        /\ i < f /\ f < j
        /\ i \in HandledRows(u) /\ tx[f].kind = "Finished" /\ j \in HandledRows(u)
        /\ EventRow(tx[j]) # EventRow(tx[i])

\* The rows the store would hold if it kept the latest record of every URL.
LatestRows == {LatestRow(u) : u \in state.seen}

\* C10: after a retry batch produced a new record for a URL that already had
\* one, all_rows holds only the latest record of that URL, and status_counts,
\* issue_counts, title_counts and meta_counts count the latest records only.
C10_StoreReflectsLatest ==
    (\E u \in state.seen : Retried(u)) =>
        /\ \A u \in state.seen :
              Retried(u) => \A i \in StoreRecords(u) : state.all_rows[i] = LatestRow(u)
        /\ \A r \in LatestRows :
              /\ get_or(state.status_counts, r.status, 0)
                    = Cardinality({q \in LatestRows : q.status = r.status})
              /\ \A issue \in r.issues :
                    get_or(state.issue_counts, issue, 0)
                        = Cardinality({q \in LatestRows : issue \in q.issues})
              /\ r.title # <<>> =>
                    get_or(state.title_counts, to_ascii_lowercase(trim(r.title)), 0)
                        = Cardinality({q \in LatestRows :
                              to_ascii_lowercase(trim(q.title))
                                  = to_ascii_lowercase(trim(r.title))})
              /\ (r.meta # <<>> /\ r.retrieval_status = "retrieved") =>
                    get_or(state.meta_counts, to_ascii_lowercase(trim(r.meta)), 0)
                        = Cardinality({q \in LatestRows :
                              /\ q.retrieval_status = "retrieved"
                              /\ to_ascii_lowercase(trim(q.meta))
                                    = to_ascii_lowercase(trim(r.meta))})

\* C11: when a record is handled for a URL that already has one (the URL was
\* re-queued), a row with that record is appended to the sink, unless the
\* write fails; and no step modifies or removes a row of the sink.
C11_RequeuedRowAppended ==
    [][(rx_pos < Len(tx) /\ rx_pos' = rx_pos + 1) =>
          /\ Len(sink'.rows) >= Len(sink.rows)
          /\ SubSeq(sink'.rows, 1, Len(sink.rows)) = sink.rows
          /\ (/\ IsRowEvent(tx[rx_pos + 1])
              /\ EventRow(tx[rx_pos + 1]).url \in state.seen
              /\ ~sink'.failed)
                => /\ Len(sink'.rows) = Len(sink.rows) + 1
                   /\ sink'.rows[Len(sink'.rows)].row = EventRow(tx[rx_pos + 1])]_vars

\* The Page and Unretrieved events the consumer has handled.
HandledRowEvents == {i \in 1..rx_pos : IsRowEvent(tx[i])}

\* C12: unless a write failed, the sink holds one row for every Page or
\* Unretrieved event handled, in the order of the events.
C12_SinkRecordsEveryEvent ==
    ~sink.failed =>
        /\ Len(sink.rows) = Cardinality(HandledRowEvents)
        /\ \A i \in HandledRowEvents :
              sink.rows[Cardinality({j \in HandledRowEvents : j <= i})].row
                  = EventRow(tx[i])

IsFailedRow(row) == row.retrieval_status # "retrieved" \/ row.status \in 500..599

\* C13: retry_failed_urls returns exactly the URLs whose latest handled record
\* is not retrieved or has a 5xx status.
C13_FailedOnlyIsLatestFailed ==
    retry_failed_urls(state) = SortedSeq({u \in state.seen : IsFailedRow(LatestRow(u))})

(***************************************************************************)
(* Claims about the control channel (SpecControl).                         *)
(***************************************************************************)
\* The control task takes the command at the head of the control channel.
TakesControl == control_rx # <<>> /\ control_rx' = Tail(control_rx)

C15_FetchBudget ==
    LET R == Max(psu.retries, 1)
        Q == psu.retry_5xx
        n == Len(psu.requests)
    IN  /\ n <= R * (Q + 1)
        /\ \A i \in 1..(n - 1) : psu.requests[i] >= 500
        /\ (psu.pc = "returned" /\ \A i \in 1..n : psu.requests[i] >= 500)
              => n = R * (Q + 1)

\* R = 3, Q = 1: 503 three times, then 200; the call returned a status-200 Page
\* after the fourth fetch.
C15_Witness ==
    /\ psu.pc = "returned"
    /\ psu.retries = 3 /\ psu.retry_5xx = 1
    /\ psu.requests = <<503, 503, 503, 200>>
    /\ psu.out[Len(psu.out)].kind = "Page"
    /\ psu.out[Len(psu.out)].status = 200

\* C16: the result of a call that returned ends with its one terminal event,
\* a Page or an Unretrieved; every event before it is a hop; the terminal
\* event is Unretrieved, with the reason "http <status> after <R> retries
\* and <Q> requeues", exactly when the last response has a status of 500 or
\* more and no body.
C16_OneTerminalEvent ==
    psu.pc = "returned" =>
        LET n == Len(psu.out)
            last_status == psu.requests[Len(psu.requests)]
        IN  /\ n >= 1
            /\ psu.out[n].kind \in {"Page", "Unretrieved"} /\ ~psu.out[n].hop
            /\ \A i \in 1..(n - 1) : psu.out[i].kind = "Page" /\ psu.out[i].hop
            /\ psu.out[n].kind = "Unretrieved"
                  <=> (last_status >= 500 /\ psu.last_size = 0)
            /\ psu.out[n].kind = "Unretrieved" =>
                  psu.out[n].reason
                      = <<"http", last_status, "after", Max(psu.retries, 1),
                          "retries and", psu.retry_5xx, "requeues">>

\* Every fetch of a redirecting URL's target was answered 503 without a body:
\* the call returned the hop and an Unretrieved after 3 retries and 1 requeue.
C16_Witness ==
    /\ psu.pc = "returned"
    /\ Len(psu.requests) = 6
    /\ Len(psu.out) = 2 /\ psu.out[1].hop
    /\ psu.out[2].kind = "Unretrieved"
    /\ psu.out[2].reason = retry_reason(503, 3, 1)

\* C19: the hop records of the probe have pairwise distinct URLs, each hop's
\* redirect_url is the next hop's URL, and the last hop's redirect_url is the
\* final fetch URL (without hops the fetch URL is the requested URL).
C19_HopsFormSimpleChain ==
    psu.pc # "probe" =>
        LET rows == psu.redirect_rows
        IN  /\ \A i \in 1..Len(rows) : \A j \in 1..Len(rows) :
                  i # j => rows[i][1] # rows[j][1]
            /\ \A i \in 1..(Len(rows) - 1) : rows[i][2] = rows[i + 1][1]
            /\ IF rows = <<>> THEN psu.fetch_url = psu.url
               ELSE rows[1][1] = psu.url /\ rows[Len(rows)][2] = psu.fetch_url

\* The probe of a redirect cycle through every URL of the site has run.
C19_Witness ==
    /\ psu.pc = "attempt"
    /\ redirects = CycleRedirects(NumUrls)
    /\ Len(psu.redirect_rows) = NumUrls
    /\ psu.fetch_url = psu.url

(***************************************************************************)
(* Claims about the reconciliation after the HTTP discovery (Spec).        *)
(***************************************************************************)
IsRecord(e) == e.kind \in {"Page", "Unretrieved"}

\* The URLs that have a record: a Page (a hop is a Page record of its own) or
\* an Unretrieved event was emitted for them.
RecordUrls == {tx[i].url : i \in {j \in 1..Len(tx) : IsRecord(tx[j])}}

\* The most recent record of a URL, and the status it carries.
LastRecord(u) ==
    tx[CHOOSE i \in 1..Len(tx) :
          /\ IsRecord(tx[i]) /\ tx[i].url = u
          /\ \A j \in 1..Len(tx) : (IsRecord(tx[j]) /\ tx[j].url = u) => j <= i]

RecordStatus(e) ==
    IF e.hop THEN 301 ELSE IF "status" \in DOMAIN e THEN e.status ELSE 0

\* (URLs reported by the discovery, links of the delivered pages and the seed,
\* on the seed's host, without the URLs that have a record) and the URLs whose
\* last record has a 5xx status, sorted and without duplicates.
ReconciliationSet ==
    SortedSeq(({u \in spider_links \cup discovered_from_pages \cup {cli.url} :
                    is_same_host(u)} \ RecordUrls)
              \cup {u \in RecordUrls : RecordStatus(LastRecord(u)) \in 500..599})

\* The step of run_crawler that ends the HTTP discovery without shutdown.
Reconciles ==
    /\ pc = "http_exit" /\ pc' # pc
    /\ ~shutdown_requested /\ crawl_task = "finished"

\* C17: the reconciliation hands ReconciliationSet to the fetch pool (and
\* calls the pool only when the set is not empty).
C17_ReconciliationSet ==
    [][Reconciles =>
          IF ReconciliationSet = <<>> THEN pc' = "retry_top"
          ELSE pc' = "fm_entry" /\ fm_input'.urls = ReconciliationSet]_vars

\* C18: a URL that has a record is handed to the fetch pool by the
\* reconciliation only if its most recent record has a 5xx status.
C18_RequeuedOnlyAfter5xx ==
    [][(Reconciles /\ pc' = "fm_entry") =>
          \A u \in Range(fm_input'.urls) \cap RecordUrls :
              RecordStatus(LastRecord(u)) \in 500..599]_vars

(***************************************************************************)
(* Claims about the WebDriver preparation (Spec).                          *)
(***************************************************************************)

\* The step of run_crawler in which prepare_webdriver_backend fails for every
\* candidate.
PrepareFails ==
    /\ pc = "rc_prepare" /\ pc' # pc
    /\ cli.webdriver /\ world.driver = "failed"

\* The events sent by the step.
SentByStep == SubSeq(tx', Len(tx) + 1, Len(tx'))

\* No discovery and no fetch was started: no crawl task, no browser session,
\* no URL requested by the spider, no task spawned by the fetch pool, no page.
NothingStarted ==
    /\ crawl_task = "none" /\ driver_process = "none"
    /\ spider_visited = {} /\ seen_urls = {}
    /\ \A u \in DOMAIN spawned : spawned[u] = 0
    /\ spawned_extra = 0 /\ tx_extra = 0
    /\ \A i \in 1..Len(tx) : tx[i].kind # "Page"

\* C20: when the preparation of a requested WebDriver backend fails, then with
\* webdriver_required the controller sends exactly one Unretrieved, for the
\* seed, followed by Finished, and returns with no discovery or fetch started;
\* without webdriver_required it goes on to the HTTP discovery.
C20_RequiredFailureOrFallback ==
    /\ [][PrepareFails =>
            IF cli.webdriver_required
              THEN /\ pc' = "returned"
                   /\ Cardinality({i \in 1..Len(SentByStep) :
                                      SentByStep[i].kind = "Unretrieved"}) = 1
                   /\ Len(SentByStep) >= 2
                   /\ SentByStep[Len(SentByStep) - 1].kind = "Unretrieved"
                   /\ SentByStep[Len(SentByStep) - 1].url = cli.url
                   /\ SentByStep[Len(SentByStep)].kind = "Finished"
              ELSE /\ pc' = "rc_subscribe"
                   /\ ~enable_webdriver'
                   /\ \A i \in 1..Len(SentByStep) :
                          SentByStep[i].kind \notin {"Unretrieved", "Finished"}]_vars
    /\ []((cli.webdriver /\ cli.webdriver_required /\ world.driver = "failed")
            => /\ pc \in {"rc_start", "rc_prepare", "returned"}
               /\ NothingStarted)

\* The run returned after the failed preparation of a required WebDriver
\* backend, the seed's Unretrieved and Finished being the last events sent.
C20_Witness ==
    /\ cli.webdriver /\ cli.webdriver_required /\ world.driver = "failed"
    /\ pc = "returned"
    /\ Len(tx) >= 2
    /\ tx[Len(tx) - 1].kind = "Unretrieved" /\ tx[Len(tx) - 1].url = cli.url
    /\ tx[Len(tx)].kind = "Finished"

\* The preparation failed without webdriver_required and the HTTP discovery
\* was started.
C20_FallbackWitness ==
    /\ cli.webdriver /\ ~cli.webdriver_required /\ world.driver = "failed"
    /\ ~enable_webdriver /\ crawl_task # "none"

(***************************************************************************)
(* Claims about the browser discovery (Spec).                              *)
(***************************************************************************)

\* The step of browser_discover_and_fetch that visits a URL.
Visits == pc = "br_loop" /\ visited' # visited

\* The URLs for which the step sent an Error event.
ErrorUrls == {SentByStep[i].url : i \in {j \in 1..Len(SentByStep) :
                                            SentByStep[j].kind = "Error"}}

\* The visit goes on to the wait for a free slot of a fetch task for url.
Redispatches(url) ==
    /\ pc' = "br_wait"
    /\ br_ret' \in {"navigate", "snapshot"}
    /\ br_cur'.url = url

\* C21: a visit in which a WebDriver call failed sends an Error event for the
\* visited URL and goes on to dispatch the URL to a per-URL fetch, and the
\* browser discovery never ends the run on such a failure.
C21_FailedVisitRedispatched ==
    [][Visits => /\ ErrorUrls \subseteq {Head(bqueue)[1]}
                 /\ \A u \in ErrorUrls : Redispatches(u)
                 /\ pc' # "returned"]_vars

\* C22: when run_crawler is gone (it returned, or a panic unwound it), no
\* WebDriver process it started is still running.
C22_DriverStoppedOnEveryExit ==
    pc \in {"returned", "panicked"} => driver_process # "running"

(***************************************************************************)
(* Claims about the JSON sink (SpecSink).                                  *)
(***************************************************************************)

\* The number of closing brackets in the file.
Closings ==
    Cardinality({i \in 1..Len(sink.file) : sink.file[i] \in {"]\n", "\n]\n"}})

\* C23: the closing bracket is written by the first finalize (or by the drop
\* when finalize was never called) and by nothing after it: once finalize or
\* the drop has run the file holds it exactly once, and a step of a closed sink
\* leaves the file as it is.
C23_ClosedExactlyOnce ==
    /\ [](pc \in {"js_finalized", "js_dropped"} => Closings = 1)
    /\ [](pc = "js_open" => Closings = 0)
    /\ [][sink.closed => sink'.file = sink.file]_vars

\* The sink was dropped after rows were written, its file closed once.
C23_Witness ==
    /\ pc = "js_dropped" /\ sink.closed
    /\ Len(sink.written) = 2
    /\ Closings = 1

RECURSIVE Separated(_)
\* The records separated by ",\n".
Separated(recs) ==
    IF Len(recs) <= 1 THEN recs
    ELSE <<Head(recs), ",\n">> \o Separated(Tail(recs))

\* C24: after finalize the file is "[\n", the written records separated by
\* ",\n", and "\n]\n" (or "]\n" when no record was written).
C24_FileContent ==
    pc \in {"js_finalized", "js_dropped"} =>
        sink.file = <<"[\n">> \o Separated(sink.written)
                        \o (IF sink.written = <<>> THEN <<"]\n">> ELSE <<"\n]\n">>)

\* Three records were written and the sink finalized.
C24_Witness ==
    /\ pc = "js_finalized"
    /\ Len(sink.written) = 3
    /\ sink.file[Len(sink.file)] = "\n]\n"

\* No record was written and the sink finalized.
C24_EmptyWitness ==
    /\ pc = "js_finalized"
    /\ sink.file = <<"[\n", "]\n">>

(***************************************************************************)
(* Claims about the analyzer (SpecRow).                                    *)
(***************************************************************************)

RECURSIVE PenaltyTotal(_)
\* The sum of the penalties of a list of issues, as an integer.
PenaltyTotal(issues) ==
    IF issues = <<>> THEN 0 ELSE penalty(Head(issues)) + PenaltyTotal(Tail(issues))

\* The list has no duplicates.
NoDuplicates(s) == Cardinality(Range(s)) = Len(s)

\* A row has been built.
HasRow == call.pc \in {"row", "rendered", "hop_row", "unretrieved"}

\* C25: the issues of every built row are without duplicates and its score is
\* max(0, 100 - the sum of their penalties), within 0..100; and for every
\* subset of the 16 issues the score is that value, the sum fitting in u16
\* and the result in u8.
C25_ScoreFromIssues ==
    /\ HasRow =>
          /\ NoDuplicates(call.row.issues)
          /\ call.row.seo_score = Max(0, 100 - PenaltyTotal(call.row.issues))
          /\ call.row.seo_score \in 0..100
    /\ call.pc = "scored" =>
          /\ PenaltyTotal(call.issues) < 65536
          /\ call.seo_score = Max(0, 100 - PenaltyTotal(call.issues))
          /\ call.seo_score \in 0..100

\* The score of all 16 issues together was computed: their penalties add up
\* to more than a u8 holds.
C25_Witness ==
    /\ call.pc = "scored"
    /\ Len(call.issues) = 16
    /\ PenaltyTotal(call.issues) > 255
    /\ call.seo_score = 0

\* A rendered row with several issues and a score between 0 and 100.
C25_RowWitness ==
    /\ call.pc = "rendered"
    /\ Len(call.row.issues) >= 3
    /\ call.row.seo_score \in 1..99

\* C26: a row built from a page, overlaid with rendered HTML or not, is
\* Indexable exactly if its status is in 200..299, its document (the rendered
\* one if overlaid) has no robots noindex meta element, and the response has
\* no X-Robots-Tag noindex header.
C26_IndexableIff ==
    call.pc \in {"row", "rendered"} =>
        LET doc == IF call.pc = "rendered" THEN call.doc ELSE call.page.doc
        IN  (call.row.indexability = "Indexable")
                <=> /\ call.row.status \in 200..299
                    /\ ~doc.noindex_meta
                    /\ ~call.page.x_robots_noindex

(***************************************************************************)
(* Claims about the URL normalizer (SpecUrl).                              *)
(***************************************************************************)

\* The parameter name, as written in a query, is a tracking name: utm_* or
\* gad_*, gclid or _gl, in any case.
IsTrackingName(key) ==
    LET name == to_ascii_lowercase(form_decode(key))
    IN  \/ Len(name) >= 4 /\ SubSeq(name, 1, 4) \in {<<"u", "t", "m", "_">>,
                                                      <<"g", "a", "d", "_">>}
        \/ name \in {<<"g", "c", "l", "i", "d">>, <<"_", "g", "l">>}

\* The URL has a query parameter whose name is a tracking name.
HasTrackingParam(url) ==
    \E i \in 1..Len(url.query) : IsTrackingName(url.query[i].key)

\* The text without its tracking parameters, its fragment and the whitespace
\* around it.
WithoutTracking(text) ==
    IF text.kind # "absolute" THEN text
    ELSE LET kept == SelectSeq(text.query, LAMBDA kv : ~IsTrackingName(kv.key))
         IN  [text EXCEPT !.query = kept, !.has_query = kept # <<>>,
                          !.has_fragment = FALSE]

\* The first link of the list whose normalized form is url.
FirstOccurrence(links, url) ==
    CHOOSE i \in 1..Len(links) :
        /\ normalize_crawl_url(links[i]) = Some(url)
        /\ \A j \in 1..(i - 1) : normalize_crawl_url(links[j]) # Some(url)

\* C27: filter_crawlable_links returns normalized URLs on the root host,
\* without duplicates, in the order of their first occurrence in the input;
\* two inputs that differ only by tracking parameters or fragment give one
\* entry.
C27_FilterCrawlableLinks ==
    call.pc = "filtered" =>
        LET out == call.out
            links == call.links
        IN  /\ \A i \in 1..Len(out) :
                  /\ normalize_crawl_url(out[i]) = Some(out[i])
                  /\ \E j \in 1..Len(links) : normalize_crawl_url(links[j]) = Some(out[i])
                  /\ call.root_host.some =>
                        out[i].host = to_ascii_lowercase(call.root_host.v)
            /\ NoDuplicates(out)
            /\ \A i, j \in 1..Len(out) :
                  i < j => FirstOccurrence(links, out[i]) < FirstOccurrence(links, out[j])
            /\ \A i, j \in 1..Len(links) :
                  WithoutTracking(links[i]) = WithoutTracking(links[j])
                      => Cardinality({k \in 1..Len(out) :
                                         \/ Some(out[k]) = normalize_crawl_url(links[i])
                                         \/ Some(out[k]) = normalize_crawl_url(links[j])})
                            <= 1

\* Three links that differ by a tracking parameter and a fragment, and one of
\* another host, gave one entry.
C27_Witness ==
    /\ call.pc = "filtered" /\ call.root_host.some
    /\ Len(call.links) = 3 /\ Len(call.out) = 1
    /\ \E i, j \in 1..3 :
          /\ i # j /\ call.links[i] # call.links[j]
          /\ call.links[i].kind = "absolute" /\ call.links[j].kind = "absolute"
          /\ HasTrackingParam(call.links[i])
          /\ WithoutTracking(call.links[i]) = WithoutTracking(call.links[j])
    /\ \E i \in 1..3 : call.links[i].kind = "absolute" /\ call.links[i].host = <<"o">>

\* C28: the normalized form of a text is a fixed point of the normalizer, and
\* it has neither a fragment nor a tracking parameter.
C28_NormalizeIdempotent ==
    /\ call.pc \in {"normalized", "renormalized"} =>
          /\ ~call.out.v.has_fragment
          /\ ~HasTrackingParam(call.out.v)
    /\ call.pc = "renormalized" => call.again = call.out

\* A text with whitespace, upper case, a fragment, an escaped tracking name and
\* a name with a space was normalized twice.
C28_Witness ==
    /\ call.pc = "renormalized"
    /\ call.raw.lead /\ call.raw.has_fragment
    /\ call.raw.host = <<"E">>
    /\ Len(call.raw.query) = 2
    /\ call.raw.query[1].key = <<"%75", "t", "m", "_", "x">>
    /\ call.raw.query[2].key = <<"a", "+">>
    /\ call.out.v # call.raw

(***************************************************************************)
(* Claims about the concurrency throttle (Spec).                           *)
(***************************************************************************)

\* The step spawns a fetch task of the pool, of the browser discovery.
PoolSpawns == SetLen' = SetLen + 1

BrowserSpawns == FetchLen' = FetchLen + 1

\* C29: a fetch task is spawned only when the tasks in flight are fewer than
\* the concurrency loaded for that spawn decision, and the value loaded is the
\* one the cell holds at the decision (the latest SetFetchConcurrency).
C29_SpawnBelowLoadedConcurrency ==
    [][/\ PoolSpawns => SetLen < conc_loaded
       /\ (pc = "fm_while" /\ pc' # pc) =>
              conc_loaded' = current_fetch_concurrency(fetch_concurrency)
       /\ BrowserSpawns =>
              FetchLen < current_fetch_concurrency(fetch_concurrency)]_vars

\* After SetFetchConcurrency raised the concurrency, the browser discovery has
\* two fetch tasks in flight.
C29_Witness ==
    /\ pc \in {"br_links", "br_loop", "br_try_join"}
    /\ current_fetch_concurrency(fetch_concurrency) > 1
    /\ FetchLen = 2

\* After SetFetchConcurrency raised the concurrency, the pool is about to spawn
\* a second task.
C29_PoolWitness ==
    /\ pc = "fm_body"
    /\ conc_loaded > 1
    /\ SetLen = 1 /\ queue # <<>> /\ ~shutdown_requested

----------------------------------------------------------------------------
\* The events of run number run that draw_loop has received.
ReceivedOf(run) == IF run <= rx_pos THEN tx[run].n ELSE 0

\* The record events (Page, Unretrieved) of run number run that draw_loop has
\* received.
ReceivedRecords(run) ==
    IF run <= rx_pos /\ is_record_event(tx[run].kind) THEN tx[run].n ELSE 0

\* The events still in paused_events.
Buffered(run) ==
    LET Parts == {i \in DOMAIN tui.paused_events : tui.paused_events[i].run = run}
    IN  IF Parts = {} THEN 0
        ELSE tui.paused_events[CHOOSE i \in Parts : TRUE].n

\* C30: when draw_loop has returned Ok, every Page and every Unretrieved event
\* it received from the channel was passed to handle_crawl_event.
C30_NoRecordLost ==
    tui.pc = "returned_ok" =>
        \A run \in 1..MaxRuns : tui.handled[run] >= ReceivedRecords(run)

\* More events than the cap arrived while paused: the oldest are gone.
C30_CapWitness ==
    /\ tui.pc = "returned_ok"
    /\ \E run \in 1..MaxRuns :
           /\ ReceivedRecords(run) > 0
           /\ tui.handled[run] + Buffered(run) < ReceivedRecords(run)

\* The loop ended while events were still buffered.
C30_BufferedAtExitWitness ==
    /\ tui.pc = "returned_ok"
    /\ tui.paused_events # <<>>

----------------------------------------------------------------------------
\* The runs of Page and Unretrieved events received so far.
RecordRuns == {run \in 1..rx_pos : is_record_event(tx[run].kind)}

\* paused_events holds the parts of runs in the order the runs were received.
BufferInOrder ==
    \A i, j \in DOMAIN tui.paused_events :
        i < j => tui.paused_events[i].run < tui.paused_events[j].run

\* C31: Page and Unretrieved events are passed to handle_crawl_event in the
\* order they were received: no event is handled while an event received
\* before it still waits in paused_events, and the buffer keeps the order.
C31_HandledInReceivedOrder ==
    /\ BufferInOrder
    /\ \A earlier, later \in RecordRuns :
           (earlier < later /\ Buffered(earlier) > 0) => tui.handled[later] = 0

\* A resume with more buffered events than one tick replays, and a later
\* event handled ahead of the rest of the buffer.
C31_OvertakenWitness ==
    \E earlier, later \in RecordRuns :
        /\ earlier < later
        /\ ~tui.paused
        /\ Buffered(earlier) > 0
        /\ tui.handled[earlier] >= DRAIN_PER_TICK
        /\ tui.handled[later] = tx[later].n

----------------------------------------------------------------------------
\* The positions of run_crawler inside browser_discover_and_fetch.
InBrowser == pc \in {"br_loop", "br_wait", "br_links", "br_try_join", "br_cancel",
                     "br_final"}

\* C32: once browser_discover_and_fetch has returned after creating its
\* session, the session was deleted exactly once and no fetch is in flight;
\* while it runs the session is open, and the step that returns deletes it.
C32_SessionDeletedOnce ==
    /\ [](session # "deleted_twice")
    /\ []((session # "none" /\ ~InBrowser) => (session = "deleted" /\ FetchLen = 0))
    /\ [](InBrowser => session = "open")
    /\ [][(InBrowser /\ ~InBrowser') =>
              (session' = "deleted" /\ FetchLen' = 0)]_vars

\* A return after normal completion.
C32_Witness ==
    /\ session = "deleted" /\ ~canceled
    /\ pc = "retry_top"
    /\ Cardinality(visited) > 1

\* A return after shutdown seen at the head of the traversal loop: the URL
\* popped last was never visited.
C32_LoopShutdownWitness ==
    /\ session = "deleted" /\ canceled /\ pc = "returned"
    /\ cli.depth = 0 /\ discovered # visited

\* A return after shutdown seen in the final drain: every queued URL was
\* visited and no wait for a free slot was going on.
C32_DrainShutdownWitness ==
    /\ session = "deleted" /\ canceled /\ pc = "returned"
    /\ visited = discovered /\ br_ret = "none"

----------------------------------------------------------------------------
\* The step of the traversal loop in which the browser navigates to a URL.
Navigates == pc = "br_loop" /\ pc' \in {"br_links", "br_wait"}

\* The step in which a link of the visited page is found to be new.
FindsNewLink ==
    /\ pc = "br_links" /\ br_cur.links # <<>>
    /\ Head(br_cur.links) \notin discovered
    /\ Head(br_cur.links) \in discovered'

\* C33: the browser navigates to a URL it has not navigated to before, at a
\* depth within the limit; a new link found at the limit or beyond is not
\* queued but handed to the wait for a fetch slot, which spawns its fetch.
C33_NavigateOnceWithinDepth ==
    /\ [][Navigates =>
              /\ Head(bqueue)[1] \notin visited
              /\ visited' = visited \cup {Head(bqueue)[1]}
              /\ cli.depth > 0 => Head(bqueue)[2] <= cli.depth]_vars
    /\ [][(FindsNewLink /\ cli.depth > 0 /\ br_cur.depth >= cli.depth) =>
              /\ bqueue' = bqueue
              /\ pc' = "br_wait" /\ br_ret' = "link"
              /\ spawn_target' = Head(br_cur.links)]_vars
    /\ [](\A i \in DOMAIN bqueue : cli.depth > 0 => bqueue[i][2] <= cli.depth)

\* A link found at the depth limit got its fetch task instead of a visit.
C33_Witness ==
    /\ cli.depth > 0
    /\ \E url \in discovered \ visited : fetch_set[url] > 0 /\ url # cli.url
    /\ \E url \in visited : url # cli.url

----------------------------------------------------------------------------
\* browser_discover_and_fetch returns Ok: the final drain found fetch_set
\* empty.
BrowserCompletes == pc = "br_final" /\ pc' = "retry_top"

\* C34: when browser discovery completes, every discovered URL, the seed
\* included, has exactly one final event (Page or Unretrieved, no redirect
\* hop) in the events of the invocation.
C34_OneFinalPerUrl ==
    [][BrowserCompletes =>
           \A url \in discovered : Cardinality(FinalEvents(batch, url)) = 1]_vars

\* Every discovered URL but the seed has exactly one final event.
C34_OneFinalButSeed ==
    [][BrowserCompletes =>
           \A url \in discovered \ {cli.url} :
               Cardinality(FinalEvents(batch, url)) = 1]_vars

\* The seed was rendered by the browser and fetched over HTTP.
C34_SeedTwiceWitness ==
    /\ pc = "retry_top" /\ session = "deleted" /\ ~canceled
    /\ Cardinality(FinalEvents(batch, cli.url)) = 2
    /\ Cardinality(discovered) > 1

----------------------------------------------------------------------------
IsRetryUrls(control) == control.cmd = "RetryUrls"

\* The RetryUrls commands sent and not yet executed, oldest first: those in
\* the retry channel, then those still in the control channel.
PendingRetries == retry_rx \o SelectSeq(control_rx, IsRetryUrls)

\* The primary crawl has not sent its Finished yet.
PrimaryRunning ==
    /\ pc # "returned"
    /\ \A i \in DOMAIN tx : tx[i].kind # "Finished"

\* The retry loop takes the oldest pending command and executes it: it calls
\* fetch_missing_urls with the command's URLs, unless none is crawlable.
ExecutesOldest ==
    /\ pc = "retry_select"
    /\ ~PrimaryRunning
    /\ PendingRetries # <<>>
    /\ PendingRetries' = Tail(PendingRetries)
    /\ LET urls == retry_filter(Head(PendingRetries).urls)
       IN  IF urls = <<>> THEN pc' = "retry_top"
           ELSE pc' = "fm_entry" /\ fm_input'.urls = urls /\ fm_ret' = "retry_after"

C35_ExecutedWitness ==
    /\ ~PrimaryRunning /\ ~shutdown_requested
    /\ pc = "fm_entry" /\ fm_ret = "retry_after"
    /\ retry_rx = <<>>

----------------------------------------------------------------------------
\* The run is one in which the client sends no command.
NoCommandRun ==
    /\ <<cli, redirects, <<>>, world>> \in Runs
    /\ \A run \in Runs : (run[1] = cli /\ run[2] = redirects /\ run[4] = world)
                            => run[3] = <<>>

FinishedSent == \E i \in DOMAIN tx : tx[i].kind = "Finished"

\* C36: in a run without commands, once the control channel is closed
\* run_crawler eventually returns, having sent Finished, and the consumer
\* eventually handles Finished (state.done, on which run_headless returns).
C36_ClosedChannelTerminates ==
    /\ (NoCommandRun /\ control_tx = "closed") ~> (pc = "returned" /\ done)
    /\ []((NoCommandRun /\ pc = "returned") => FinishedSent)

\* run_crawler went through the retry loop and left it on the closed channel.
C36_Witness ==
    /\ NoCommandRun /\ control_tx = "closed"
    /\ pc = "returned" /\ done
    /\ control_task = "exited" /\ ~shutdown_requested
    /\ cli.url # 0

----------------------------------------------------------------------------
InHttpLoop == pc \in {"http_top", "http_select"}

\* subscription.recv() yields Err(Lagged(n)): the pages lost are reported.
ReceivesLag == pc = "http_select" /\ sub_skipped > 0 /\ sub_skipped' = 0

\* C37: the step that receives a lag sends exactly one event, an Error, and
\* goes back to the head of the loop with the subscription as it was; the
\* loop is left towards the reconciliation only; and a lag in HTTP discovery
\* is followed by Finished.
C37_LagReportedOnce ==
    /\ [][ReceivesLag =>
              /\ Len(tx') = Len(tx) + 1
              /\ SubSeq(tx', 1, Len(tx)) = tx
              /\ tx'[Len(tx')].kind = "Error"
              /\ pc' = "http_top"
              /\ subscription' = subscription
              /\ seen_urls' = seen_urls]_vars
    /\ [][(InHttpLoop /\ ~InHttpLoop') => pc' = "http_exit"]_vars
    /\ ((InHttpLoop /\ sub_skipped > 0) ~> FinishedSent)

\* After a lag was reported the consumer received a page, the reconciliation
\* fetched what was missing, and Finished was sent.
C37_Witness ==
    /\ ~cli.webdriver /\ cli.url # 0 /\ world.sync
    /\ crawl_task = "finished" /\ ~shutdown_requested
    /\ pc = "retry_top"
    /\ \E i, j, k \in DOMAIN tx :
           /\ i < j /\ j < k
           /\ tx[i].kind = "Error"
           /\ tx[j].kind = "Page" /\ tx[j].src = tx[i].src
           /\ tx[k].kind = "Finished" /\ tx[k].src > tx[i].src

----------------------------------------------------------------------------
\* The class the status of a redirect stands for.
ExpectedRedirectType(status) ==
    IF status \in {301, 308} THEN "Permanent"
    ELSE IF status \in {302, 303, 307} THEN "Temporary"
    ELSE "Redirect"

\* The URL the answer redirects to: the final URL of a page, the resolved
\* Location of a probed hop.
RedirectTarget(from) ==
    IF from.pc = "page_redirect" THEN from.final
    ELSE IF from.pc = "redirect_hop" THEN from.location.v
    ELSE EmptyText

HasRecord == call.pc = "record" /\ call.row.some

\* C38: a record with a status in 300..=399 has a non-empty redirect_url, the
\* normalized target where the target has a normal form, and the
\* redirect_type of its status; any other record has both fields empty.
C38_RedirectFields ==
    HasRecord =>
        LET row == call.row.v
            target == RedirectTarget(call.from)
        IN  IF row.status \in 300..399
              THEN /\ row.redirect_url # EmptyText
                   /\ normalize_crawl_url(target).some
                         => row.redirect_url = normalize_crawl_url(target).v
                   /\ row.redirect_type = ExpectedRedirectType(row.status)
            ELSE row.redirect_url = EmptyText /\ row.redirect_type = ""

\* The same for the records whose redirect was followed or probed: all but
\* the page whose answer is a 3xx at its own URL.
C38_FollowedRedirectFields ==
    (HasRecord /\ ~(call.from.pc = "page_redirect"
                      /\ normalized_or_raw(call.from.requested)
                            = normalized_or_raw(call.from.final)))
        => C38_RedirectFields

\* The record of a page answered with a 3xx that was not followed.
C38_UnfollowedWitness ==
    /\ HasRecord /\ call.from.pc = "page_redirect"
    /\ call.row.v.status = 301
    /\ call.row.v.redirect_url = EmptyText
    /\ call.row.v.redirect_type = "Permanent"

(***************************************************************************)
(* The dashboard store after a long crawl: handle_crawl_event on an        *)
(* AppState that already holds the records of earlier Page events.         *)
(***************************************************************************)
\* Number of records of the long crawl handled before the events of tx.
PreloadedRows == 499

\* The URL of the i-th earlier record, none of them a URL of tx.
PreloadedUrl(i) == ForeignUrl + i

\* The AppState after push_row of the earlier records lo..hi, in this order,
\* on the state st. The records lo..mid are pushed, and their state is
\* computed, before the records mid+1..hi.
RECURSIVE PushEarlier(_, _, _)
PushEarlier(st, lo, hi) ==
    IF lo > hi THEN st
    ELSE IF lo = hi
    THEN push_row(st, Row(PreloadedUrl(lo), 200, "retrieved", <<>>, <<>>, {}), <<>>).state
    ELSE LET mid  == (lo + hi) \div 2
             left == PushEarlier(st, lo, mid)
         IN  IF left = left THEN PushEarlier(left, mid + 1, hi) ELSE st

\* The AppState after the first n records of the long crawl.
Preloaded(n) == PushEarlier(DefaultState, 1, n)

InitStore ==
    /\ state \in {DefaultState, Preloaded(PreloadedRows)}
    /\ cli = Options(FALSE, FALSE, 0, FALSE)
    /\ redirects = NoRedirects(SmallSite)
    /\ world = World("failed", FALSE, TRUE)
    /\ ui_script = <<>>
    /\ fetch_concurrency = sanitize_fetch_concurrency(cli.fetch_concurrency)
    /\ shutdown_requested = FALSE
    /\ control_rx = <<>>
    /\ control_tx = "open"
    /\ control_task = "running"
    /\ retry_rx = <<>>
    /\ pc = "retry_top"
    /\ fm_ret = "caller"
    /\ fm_input = [urls |-> <<>>, extra |-> 0]
    /\ IdleBackends
    /\ tx \in SeqsUpTo(CrawlEvents, MaxEvents)
    /\ done = FALSE
    /\ rx_pos = 0
    /\ sink = NewSink
    /\ psu = NoCall
    /\ call = NoCall
    /\ tui = NoCall

NextStore == handle_crawl_event

SpecStore == InitStore /\ [][NextStore]_vars

\* The URLs of the stored records.
StoredUrls == {state.all_rows[i].url : i \in 1..Len(state.all_rows)}

\* The number of stored records that carry an issue.
RowsCarrying(issue) ==
    Cardinality({i \in 1..Len(state.all_rows) : issue \in state.all_rows[i].issues})

StoredIssues == UNION {state.all_rows[i].issues : i \in 1..Len(state.all_rows)}

\* The last `cap` stored records, the most recent first.
RecentFirst(all, cap) ==
    [i \in 1..Min(Len(all), cap) |-> all[Len(all) - i + 1]]

\* C39: after any sequence of handle_crawl_event calls the counters agree with
\* the store: parsed = |all_rows| = |seen|, the URLs of all_rows are pairwise
\* distinct, the status counts sum to parsed, every issue count is the number
\* of stored records carrying the issue, and the display queue holds at most
\* 500 records, the most recent first.
C39_CountersAgreeWithStore ==
    /\ state.parsed = Len(state.all_rows)
    /\ state.parsed = Cardinality(state.seen)
    /\ Cardinality(StoredUrls) = Len(state.all_rows)
    /\ StoredUrls = state.seen
    /\ SumOver(state.status_counts, DOMAIN state.status_counts) = state.parsed
    /\ DOMAIN state.issue_counts = StoredIssues
    /\ \A issue \in StoredIssues : state.issue_counts[issue] = RowsCarrying(issue)
    /\ Len(state.rows) <= MaxDisplayRows
    /\ state.rows = RecentFirst(state.all_rows, MaxDisplayRows)

\* Every event of tx is handled, a Page event for an already stored URL was
\* skipped, and the display queue has dropped its oldest records.
C39_Witness ==
    /\ rx_pos = Len(tx)
    /\ Len(state.all_rows) > MaxDisplayRows
    /\ Len(state.rows) = MaxDisplayRows
    /\ \E i, j \in 1..Len(tx) :
            /\ i < j
            /\ tx[i].kind = "Page"
            /\ tx[j].kind = "Page"
            /\ tx[i].row.url = tx[j].row.url
            /\ tx[i].row.issues # tx[j].row.issues
    /\ StoredIssues # {}

\* l is in outgoing_links[u].
Forward(u, l) ==
    u \in DOMAIN state.outgoing_links /\ l \in Range(state.outgoing_links[u])

\* u is in incoming_links[l].
Reverse(u, l) ==
    l \in DOMAIN state.incoming_links /\ u \in state.incoming_links[l]

\* C40: after any sequence of push_row calls, several calls for one URL with
\* different link lists included, u is in incoming_links[l] iff l is in
\* outgoing_links[u] and l differs from u.
C40_ReverseIsInverse ==
    \A u, l \in AllUrls : Reverse(u, l) <=> (Forward(u, l) /\ l # u)

\* Every forward link to another URL has its reverse entry, and a reverse
\* entry without its forward link comes from a later call for a stored URL.
C40_ForwardHasReverse ==
    /\ \A u, l \in AllUrls : (Forward(u, l) /\ l # u) => Reverse(u, l)
    /\ \A u, l \in AllUrls :
            (Reverse(u, l) /\ ~Forward(u, l)) =>
                \E i, j \in 1..rx_pos :
                    /\ i < j
                    /\ tx[i].kind \in {"Page", "Unretrieved"}
                    /\ tx[j].kind = "Page"
                    /\ (IF tx[i].kind = "Page" THEN tx[i].row.url ELSE tx[i].url) = u
                    /\ tx[j].row.url = u
                    /\ l \in Range(tx[j].discovered_links)

\* A second Page event for a stored URL has added a reverse entry.
C40_SecondCallWitness ==
    \E u, l \in AllUrls : Reverse(u, l) /\ ~Forward(u, l)

=============================================================================
